---- MODULE Spec2Model ----
(***************************************************************************)
(* A model of cqlsh.py: the read loop (cmdloop/onecmd), the command router *)
(* (handle_statement), the execution engine (perform_statement,            *)
(* perform_statement_untraced, print_result) and the CSV import            *)
(* (perform_csv_import, do_import_row, do_import_insert).                  *)
(*                                                                         *)
(* Text is modelled as a sequence of lexemes: every element of a text is   *)
(* the text of one token, or "\n" for a line break.  The white space       *)
(* between two tokens of one line is not represented.                      *)
(***************************************************************************)
EXTENDS Integers, Sequences, FiniteSets, TLC

VARIABLES
    statement,          \* self.statement: the accumulating text buffer
    stop,               \* self.stop
    statement_error,    \* self.statement_error (set by printerr)
    prompt,             \* which prompt set_prompt installed last
    empty_lines,        \* self.empty_lines
    lastcmd,            \* self.lastcmd: the last line read
    current_keyspace,   \* self.current_keyspace ("" for None)
    tracing_enabled,    \* self.tracing_enabled
    pc,                 \* position of the control thread
    pending,            \* onecmd: the statements of the buffer still to be handled
    queued,             \* history: what the last onecmd saw and what it queued
    disp,               \* history: how handle_statement routed the last statement
    eng,                \* frame of the running/last perform_statement_untraced call
    ev,                 \* history: events of the running/last perform_statement call
    imp,                \* frame of the running/last perform_csv_import call
    expand_enabled,     \* self.expand_enabled
    consistency_level,  \* self.cursor.consistency_level
    query_out,          \* self.query_out: where query output goes
    shunted_query_out,  \* self.shunted_query_out ("" for None)
    color,              \* self.color
    shunted_color,      \* self.shunted_color (<<>> while the attribute is not there)
    shells,             \* the shells suspended in do_source, innermost last
    options,            \* main: whether options.file and options.execute are given
    proc,               \* history of the process: errors of sourced scripts, exit status
    job,                \* the transfer job of perform_csv_export/_import in detail
    regen,              \* the runs of print_recreate_columnfamily
    stdin               \* self.stdin when it is a file given in full: its lines
                        \* and how many of them get_input_line has taken

\* the state of the read loop, the router and the engine
shellvars == <<statement, stop, statement_error, prompt, empty_lines, lastcmd,
               current_keyspace, tracing_enabled, pc, pending, queued, disp, eng, ev,
               imp>>

\* the display settings of the session
settings == <<expand_enabled, consistency_level, query_out, shunted_query_out,
              color, shunted_color>>

\* the state outside the running shell
outer == <<shells, options, proc>>

vars == <<statement, stop, statement_error, prompt, empty_lines, lastcmd, current_keyspace,
          tracing_enabled, pc, pending, queued, disp, eng, ev, imp, expand_enabled,
          consistency_level, query_out, shunted_query_out, color, shunted_color,
          shells, options, proc, job, regen, stdin>>

-----------------------------------------------------------------------------
(* Bounds of the model *)

\* most lines the buffer may hold before the input has to complete the statement
MaxBufLines == 2

\* most lines of the buffer where the continuation prompt is followed
MaxPromptLines == 5
\* most records an import source holds
MaxRecords == 5
\* number of columns of the table that COPY names
NumColumns == 3

(* Program constants *)

num_retries == 4
\* the exit status of sys.exit(<message>)
message_exit_status == 1
DEFAULT_SELECT_LIMIT == 10000

-----------------------------------------------------------------------------
(* Lexemes and the grammar contract (cqlshlib) *)

\* str.lower() on the lexemes the model uses
Lower(s) ==
    CASE s = "SELECT" -> "select"
      [] s = "Describe" -> "describe"
      [] s = "LIMIT" -> "limit"
      [] s = "INSERT" -> "insert"
      [] s = "K" -> "k"
      [] s = "\"K\"" -> "\"k\""
      [] OTHER -> s

\* mutant: the text is taken as written
Upper_as_written(s) == s

\* str.upper() on the lexemes the model uses
Upper(s) ==
    CASE s = "begin" -> "BEGIN"
      [] s = "apply" -> "APPLY"
      [] s = "on" -> "ON"
      [] s = "off" -> "OFF"
      [] s = "from" -> "FROM"
      [] s = "to" -> "TO"
      [] s = "quorum" -> "QUORUM"
      [] OTHER -> s

\* shell commands that a line break terminates
my_commands_ending_with_newline ==
    {"help", "?", "consistency", "describe", "desc", "show", "source",
     "capture", "debug", "tracing", "expand", "exit", "quit"}

\* the lexeme no lexer rule matches
BadLexeme == "#"

\* pylexotron lexer: one token per lexeme, with its position in the text
lex(text) ==
    [i \in 1..Len(text) |->
        [type |-> IF text[i] = ";" THEN "endtoken"
                  ELSE IF text[i] = "\n" THEN "endline" ELSE "word",
         text |-> text[i],
         pos  |-> i]]

LexingError(text) == \E i \in 1..Len(text) : text[i] = BadLexeme

\* mutant: the offset is counted within the last line
charnum_in_line(text) == 0

\* LexingError.charnum: the offset of the first lexeme that no rule matches
charnum(text) ==
    (CHOOSE i \in 1..Len(text) :
        /\ text[i] = BadLexeme
        /\ \A j \in 1..(i - 1) : text[j] # BadLexeme) - 1

\* CqlRuleSet.cql_massage_tokens: line breaks are dropped, except after a
\* command of commands_end_with_newline, where they become terminators
RECURSIVE massage_from(_, _, _)
massage_from(toklist, curlen, term_on_nl) ==
    IF toklist = <<>> THEN <<>>
    ELSE LET t0 == Head(toklist)
             rest == Tail(toklist)
         IN IF t0.type = "endline" /\ ~term_on_nl
            THEN massage_from(rest, curlen, term_on_nl)
            ELSE LET t == IF t0.type = "endline"
                          THEN [t0 EXCEPT !.type = "endtoken"] ELSE t0
                 IN IF t.type = "endtoken"
                    THEN <<t>> \o massage_from(rest, 0, FALSE)
                    ELSE <<t>> \o massage_from(rest, curlen + 1,
                            IF curlen = 0
                            THEN Lower(t.text) \in my_commands_ending_with_newline
                            ELSE term_on_nl)

cql_massage_tokens(toklist) == massage_from(toklist, 0, FALSE)

\* util.split_list: cut after every terminator; the last piece may be empty
RECURSIVE split_list(_, _)
split_list(toks, cur) ==
    IF toks = <<>> THEN <<cur>>
    ELSE IF Head(toks).type = "endtoken"
         THEN <<Append(cur, Head(toks))>> \o split_list(Tail(toks), <<>>)
         ELSE split_list(Tail(toks), Append(cur, Head(toks)))

\* the batch-region merge of CqlRuleSet.cql_split_statements
RECURSIVE merge_batches(_, _, _)
merge_batches(stmts, output, in_batch) ==
    IF stmts = <<>> THEN [statements |-> output, in_batch |-> in_batch]
    ELSE LET stmt == Head(stmts)
             out == IF in_batch
                    THEN [output EXCEPT ![Len(output)] = @ \o stmt]
                    ELSE Append(output, stmt)
             nb == IF Len(stmt) > 2
                   THEN IF Upper(stmt[Len(stmt) - 2].text) = "APPLY" THEN FALSE
                        ELSE IF Upper(stmt[1].text) = "BEGIN" THEN TRUE
                        ELSE in_batch
                   ELSE in_batch
         IN merge_batches(Tail(stmts), out, nb)

\* CqlRuleSet.cql_split_statements(text) -> (statements, in_batch)
cql_split_statements(text) ==
    merge_batches(split_list(cql_massage_tokens(lex(text)), <<>>), <<>>, FALSE)

\* CqlRuleSet.cql_extract_orig(tokens, srcstr): the source text from the first
\* token to the last token
cql_extract_orig(tokens, srcstr) ==
    SubSeq(srcstr, tokens[1].pos, tokens[Len(tokens)].pos)

-----------------------------------------------------------------------------
(* The builtin grammar (cqlsh_extra_syntax_rules) on the model's lexemes *)

Texts(tokens) == [i \in 1..Len(tokens) |-> Lower(tokens[i].text)]

Last(s) == s[Len(s)]
Front(s) == SubSeq(s, 1, Len(s) - 1)

\* <specialCommand> ( ";" | "\n" ): the shell's own commands
specialCommand(w) ==
    /\ Len(w) >= 2
    /\ Last(w) \in {";", "\n"}
    /\ LET body == Front(w)
       IN \/ body \in {<<"describe", "keyspaces">>, <<"desc", "keyspaces">>,
                       <<"describe", "tables">>, <<"describe", "schema">>,
                       <<"describe", "cluster">>}
          \/ body \in {<<"tracing">>, <<"tracing", "on">>, <<"tracing", "off">>}
          \/ body \in {<<"help">>, <<"?">>}
          \/ body \in {<<"exit">>, <<"quit">>}
          \/ body \in {<<"expand">>, <<"expand", "on">>, <<"expand", "off">>}
          \/ body \in {<<"consistency">>, <<"consistency", "quorum">>,
                       <<"consistency", "one">>}
          \/ body \in {<<"capture">>, <<"capture", "off">>, <<"capture", "'g'">>,
                       <<"capture", "'h'">>}
          \/ body = <<"source", "'f'">>
          \/ /\ Len(body) = 4
             /\ body[1] = "copy" /\ body[2] = "t"
             /\ body[3] \in {"from", "to"} /\ body[4] = "f"

\* <keyspaceName>: an identifier, or a name in double quotes
KeyspaceNames == {"k", "K", "\"K\""}

\* <CQL_Statement>: the statements of the query language the local grammar
\* knows, each ended by ";"
CQL_Statement(w) ==
    /\ Len(w) >= 2
    /\ Last(w) = ";"
    /\ LET body == Front(w)
       IN \/ body = <<"select", "t">>
          \/ Len(body) = 4 /\ SubSeq(body, 1, 3) = <<"select", "t", "limit">>
                           /\ body[4] \in {"5"}
          \/ body = <<"insert", "x">>
          \/ /\ Len(body) = 2 /\ body[1] = "use"
             /\ body[2] \in {Lower(n) : n \in KeyspaceNames}
          \/ /\ Len(body) >= 4
             /\ SubSeq(body, 1, 2) = <<"begin", "batch">>
             /\ SubSeq(body, Len(body) - 1, Len(body)) = <<"apply", "batch">>

\* cql_whole_parse_tokens(tokens, startsymbol='cqlshCommand'): TRUE for a
\* complete parse that leaves no remainder
cql_whole_parse_tokens(tokens) ==
    LET w == Texts(tokens) IN CQL_Statement(w) \/ specialCommand(w)

\* parsed.get_binding(name): "" stands for None
get_binding(tokens, name) ==
    LET w == Texts(tokens)
    IN CASE name = "limit" -> IF Len(w) = 5 /\ w[3] = "limit" THEN w[4] ELSE ""
         [] name = "ksname" -> IF w[1] = "use" THEN tokens[2].text ELSE ""
         [] name = "switch" -> IF Len(w) = 3 THEN tokens[2].text ELSE ""
         [] name = "dir" -> IF w[1] = "copy" THEN tokens[3].text ELSE ""
         [] name = "level" ->
                IF w[1] = "consistency" /\ Len(w) = 3 THEN tokens[2].text ELSE ""
         [] name = "fname" ->
                IF w[1] \in {"capture", "source"} /\ Len(w) = 3
                THEN tokens[2].text ELSE ""
         [] OTHER -> ""

-----------------------------------------------------------------------------
(* Statement Assembler: Shell.onecmd *)

RECURSIVE strip_empty(_)
strip_empty(statements) ==
    IF statements # <<>> /\ Last(statements) = <<>>
    THEN strip_empty(Front(statements))
    ELSE statements

\* mutant: the last token is not tested for being a terminator
onecmd_no_terminator_test(statementtext) ==
    IF LexingError(statementtext)
    THEN [kind |-> "lexerror", statements |-> <<>>]
    ELSE LET sp == cql_split_statements(statementtext)
             statements == strip_empty(sp.statements)
         IN IF statements = <<>>
            THEN [kind |-> "empty", statements |-> <<>>]
            ELSE IF sp.in_batch
                 THEN [kind |-> "continue", statements |-> <<>>]
                 ELSE [kind |-> "dispatch", statements |-> statements]

\* mutant: the open batch region is not tested
onecmd_no_batch_test(statementtext) ==
    IF LexingError(statementtext)
    THEN [kind |-> "lexerror", statements |-> <<>>]
    ELSE LET sp == cql_split_statements(statementtext)
             statements == strip_empty(sp.statements)
         IN IF statements = <<>>
            THEN [kind |-> "empty", statements |-> <<>>]
            ELSE IF Last(Last(statements)).type # "endtoken"
                 THEN [kind |-> "continue", statements |-> <<>>]
                 ELSE [kind |-> "dispatch", statements |-> statements]

\* Shell.onecmd up to the dispatch loop.  kind is "lexerror" (syntax error
\* reported, True returned), "empty" (True returned, nothing to do),
\* "continue" (None returned after set_continue_prompt) or "dispatch"
\* (every statement is handed to handle_statement, then True is returned).
onecmd(statementtext) ==
    IF LexingError(statementtext)
    THEN [kind |-> "lexerror", statements |-> <<>>]
    ELSE LET sp == cql_split_statements(statementtext)
             statements == strip_empty(sp.statements)
         IN IF statements = <<>>
            THEN [kind |-> "empty", statements |-> <<>>]
            ELSE IF sp.in_batch \/ Last(Last(statements)).type # "endtoken"
                 THEN [kind |-> "continue", statements |-> <<>>]
                 ELSE [kind |-> "dispatch", statements |-> statements]

-----------------------------------------------------------------------------
(* Command Router: the decisions of Shell.handle_statement *)

\* the do_* attributes of Shell: getattr(self, 'do_' + cmdword.lower(), None)
do_names ==
    {"use", "select", "describe", "desc", "copy", "import_row", "import_insert",
     "show", "source", "capture", "tracing", "expand", "consistency",
     "exit", "quit", "debug", "help"}

\* cmdword = tokens[0][1]; '?' is an alias of help
cmdword_of(tokens) ==
    IF tokens[1].text = "?" THEN "help" ELSE tokens[1].text

\* the name of the custom handler of a statement, "" when there is none
custom_handler(tokens) ==
    IF Lower(cmdword_of(tokens)) \in do_names
    THEN Lower(cmdword_of(tokens)) ELSE ""

\* mutant: describe is forwarded too
always_forward_describe ==
    {"select", "insert", "update", "delete", "truncate", "create", "drop",
     "alter", "grant", "revoke", "batch", "list", "describe"}

\* Shell.handle_parse_error: the command words forwarded in spite of a
\* failed local parse
always_forward ==
    {"select", "insert", "update", "delete", "truncate", "create", "drop",
     "alter", "grant", "revoke", "batch", "list"}

\* mutant: a statement without handler is forwarded only when its command
\* word is one of always_forward
route_of_rejects_unknown(tokens) ==
    IF custom_handler(tokens) = ""
    THEN IF Lower(cmdword_of(tokens)) \in always_forward
         THEN "passthrough" ELSE "improper"
    ELSE IF cql_whole_parse_tokens(tokens) THEN "builtin"
    ELSE IF Lower(cmdword_of(tokens)) \in always_forward THEN "forward"
    ELSE "improper"

\* where handle_statement sends a statement: "passthrough" (no handler),
\* "builtin" (clean parse), "forward" or "improper" (handle_parse_error)
route_of(tokens) ==
    IF custom_handler(tokens) = "" THEN "passthrough"
    ELSE IF cql_whole_parse_tokens(tokens) THEN "builtin"
    ELSE IF Lower(cmdword_of(tokens)) \in always_forward THEN "forward"
    ELSE "improper"

\* mutant: the terminator is not cut off before the limit is appended
select_statement_keep_end(orig, with_default_limit) ==
    IF with_default_limit
    THEN orig \o <<"LIMIT", "10000", ";">>
    ELSE orig

\* Shell.do_select: the text handed to perform_statement
select_statement(orig, with_default_limit) ==
    IF with_default_limit
    THEN Front(orig) \o <<"LIMIT", "10000", ";">>
    ELSE orig

\* cqlruleset.dequote_name: the name without its double quotes
dequote_name(namestr) ==
    CASE namestr = "\"K\"" -> "K"
      [] OTHER -> namestr

\* Shell.cql_unprotect_name
cql_unprotect_name(namestr) == dequote_name(namestr)

\* ksname[0] == '"' and ksname[-1] == '"'
in_double_quotes(ksname) == ksname \in {"\"K\""}

\* mutant: the name is kept as the statement has it
use_keyspace_as_written(ksname) == ksname

\* Shell.do_use: the new current keyspace after a successful USE
use_keyspace(ksname) ==
    IF in_double_quotes(ksname) THEN cql_unprotect_name(ksname)
    ELSE Lower(ksname)

-----------------------------------------------------------------------------
(* Execution Engine: the decisions of perform_statement_untraced and
   print_result *)

\* what cursor.execute can do: succeed, or raise cql.IntegrityError,
\* cql.ProgrammingError, another of CQL_ERRORS, or any other Exception
Outcomes == {"ok", "integrity", "programming", "error", "exception"}

\* mutant: malformed requests are retried too
retryable_programming_too(outcome) == outcome \in {"integrity", "programming"}

\* mutant: every failure is retried
retryable_any(outcome) == TRUE

\* the except clause that retries
retryable(outcome) == outcome = "integrity"

\* the answers the server may give to one statement: conflicts, then an
\* answer that is not a conflict
FinalOutcomes == Outcomes \ {"integrity"}

\* self.cursor.execute called by a job: one submission, whose exception, if
\* any, leaves the job; the server would answer `conflicts` times with a
\* conflict before it answers `final`
cursor_execute(site, conflicts, final) ==
    [site |-> site, attempts |-> 1,
     outcome |-> IF conflicts > 0 THEN "integrity" ELSE final]

\* mutant: the engine submits once, whatever the failure
perform_statement_untraced_once(site, conflicts, final) ==
    [site |-> site, attempts |-> 1,
     outcome |-> IF conflicts > 0 THEN "integrity" ELSE final]

\* perform_statement_untraced called by a job: a conflict is submitted again
\* until num_retries submissions are made; any other answer ends the loop;
\* no exception leaves it
perform_statement_untraced(site, conflicts, final) ==
    [site |-> site,
     attempts |-> IF conflicts >= num_retries THEN num_retries ELSE conflicts + 1,
     outcome |-> IF conflicts >= num_retries THEN "integrity" ELSE final]

\* mutant: gives up one attempt early
retry_exhausted_early(trynum) == trynum >= num_retries

\* trynum > self.num_retries, tested after trynum += 1
retry_exhausted(trynum) == trynum > num_retries

\* time.sleep(1*trynum), trynum already incremented
retry_sleep(trynum) == 1 * trynum

\* a cursor after a successful execute: the row count, whether the
\* description is that of a count result and the count it holds
CursorResults ==
    [rowcount : {0, 1, DEFAULT_SELECT_LIMIT - 1, DEFAULT_SELECT_LIMIT},
     is_count : {FALSE}, count : {0}]
    \cup
    [rowcount : {1}, is_count : {TRUE},
     count : {0, DEFAULT_SELECT_LIMIT - 1, DEFAULT_SELECT_LIMIT}]

NoCursor == [rowcount |-> 0, is_count |-> FALSE, count |-> 0]

\* statement[:6].lower() == 'select' or statement.lower().startswith("list")
is_read_statement(text) == Lower(text[1]) \in {"select", "list"}

\* how perform_statement_untraced renders a successful cursor
rendering(text, cursor) ==
    IF is_read_statement(text) THEN "result"
    ELSE IF cursor.rowcount > 0 THEN "static" ELSE "none"

\* mutant: the row count is compared with >= one row short of the cap
default_limit_warning_off_by_one(cursor, with_default_limit) ==
    /\ with_default_limit
    /\ \/ cursor.is_count /\ cursor.count = DEFAULT_SELECT_LIMIT
       \/ cursor.rowcount >= DEFAULT_SELECT_LIMIT - 1

\* print_result: whether the default-limit warning is written
default_limit_warning(cursor, with_default_limit) ==
    /\ with_default_limit
    /\ \/ cursor.is_count /\ cursor.count = DEFAULT_SELECT_LIMIT
       \/ cursor.rowcount = DEFAULT_SELECT_LIMIT

Event(e, n, k) == [e |-> e, n |-> n, k |-> k]

NoEng ==
    [statement |-> <<>>, trynum |-> 0, with_default_limit |-> FALSE,
     caller |-> "none", traced |-> FALSE, result |-> "none",
     rendered |-> "none", warned |-> FALSE, cursor |-> NoCursor]

NoDisp ==
    [route |-> "none", tokens |-> <<>>, orig |-> <<>>, handler |-> "",
     engine_calls |-> 0, improper |-> FALSE, handled |-> <<>>]

-----------------------------------------------------------------------------
(* Bulk import: the decisions of perform_csv_import *)

\* mutant: the aborting record is counted
\* the record number that the two abort reports print: the index that
\* enumerate(reader) gives the record
reported_record(rownum) == rownum

import_abort_result_counts_bad(rownum) == rownum + 1

\* the value returned when a record aborts the job
import_abort_result(rownum) == rownum

\* mutant: the last record is not counted
import_done_result_short(rownum) == rownum

\* the value returned after the last record
import_done_result(rownum) == rownum + 1

\* len(row) != len(columns)
wrong_field_count(nfields, ncolumns) == nfields # ncolumns

\* do_import_insert: the text of the insert of one record
import_insert_text == <<"INSERT", "INTO", "k.t">>

NoImp ==
    [active |-> FALSE, rownum |-> -1, sent |-> <<>>, inserted |-> 0,
     returned |-> -1, cause |-> "none", bad |-> -1]

-----------------------------------------------------------------------------
(* Bulk Transfer Pipeline in detail: the values of do_import_row and of
   perform_csv_export.  A literal is the sequence of the lexemes of its
   text; a table value is a record, t = "null" for None. *)

\* most rows the cursor of an export, or the source of an import, yields
MaxRows == 2

\* a column type of cql.cqltypes: its CQL name and its attributes
CqlType(cql, ebo) == [cql |-> cql, empty_binary_ok |-> ebo, subtypes |-> <<>>]

\* ReversedType(sub): the wrapper that marks a descending clustering column
ReversedType(sub) ==
    [cql |-> "'ReversedType'", empty_binary_ok |-> FALSE, subtypes |-> <<sub>>]

\* issubclass(type, ReversedType)
is_reversed(type) == type.subtypes # <<>>

text_type == CqlType("text", TRUE)
int_type == CqlType("int", FALSE)
inet_type == CqlType("inet", FALSE)
timestamp_type == CqlType("timestamp", FALSE)
blob_type == CqlType("blob", TRUE)

\* a column of the layout: name, cqltype, and whether the name is in
\* layout.clustering_key_columns
Column(name, type, clustering) ==
    [name |-> name, cqltype |-> type, clustering |-> clustering]

\* the table layouts of the model
Layouts ==
    { <<Column("c", ReversedType(int_type), TRUE), Column("v", text_type, FALSE)>>,
      <<Column("c", text_type, TRUE), Column("v", int_type, FALSE)>>,
      <<Column("c", ReversedType(timestamp_type), TRUE), Column("v", inet_type, FALSE)>>,
      <<Column("c", int_type, FALSE), Column("v", blob_type, FALSE)>> }

\* the texts a field of a record can hold and the null tokens of a job
FieldTexts == {"", "N", "a"}
NullTokens == {"", "N"}

\* str.title() on the type names of the model
Title(s) ==
    CASE s = "text" -> "Text"
      [] s = "int" -> "Int"
      [] s = "inet" -> "Inet"
      [] s = "timestamp" -> "Timestamp"
      [] s = "blob" -> "Blob"
      [] OTHER -> s

\* Shell.cql_protect_value: the text as a quoted literal
cql_protect_value(value) == <<"'", value, "'">>

\* the types whose values do_import_row escapes
escaped_types == {"ascii", "text", "timestamp", "inet"}

\* mutant: the reversed-type wrapper is not taken off
import_literal_no_unwrap(col, value, nullval) ==
    LET type == col.cqltype
        cqltype == type.cql
    IN IF value # nullval
       THEN IF cqltype \in escaped_types
            THEN cql_protect_value(value) ELSE <<value>>
       ELSE IF col.clustering /\ ~type.empty_binary_ok
            THEN <<"blobAs", Title(cqltype), "(0x)">>
            ELSE <<"null">>

\* mutant: the type is tested before the null token
import_literal_escapes_null(col, value, nullval) ==
    LET type == IF is_reversed(col.cqltype) THEN col.cqltype.subtypes[1]
                ELSE col.cqltype
        cqltype == type.cql
    IN IF cqltype \in escaped_types THEN cql_protect_value(value)
       ELSE IF value # nullval THEN <<value>>
       ELSE IF col.clustering /\ ~type.empty_binary_ok
            THEN <<"blobAs", Title(cqltype), "(0x)">>
            ELSE <<"null">>

\* Shell.do_import_row, one turn of its loop: the literal sent for the field
\* `value` of the column `col`
import_literal(col, value, nullval) ==
    LET type == IF is_reversed(col.cqltype) THEN col.cqltype.subtypes[1]
                ELSE col.cqltype
        cqltype == type.cql
    IN IF value # nullval
       THEN IF cqltype \in escaped_types
            THEN cql_protect_value(value) ELSE <<value>>
       ELSE IF col.clustering /\ ~type.empty_binary_ok
            THEN <<"blobAs", Title(cqltype), "(0x)">>
            ELSE <<"null">>

\* Shell.do_import_row: the rowmap of a record, in the order of the columns
do_import_row(columns, nullval, row) ==
    [i \in 1..Len(columns) |->
        [name |-> columns[i].name,
         literal |-> import_literal(columns[i], row[i], nullval)]]

\* None as a table value
None == [t |-> "null", v |-> ""]

\* a value of a column that is not None: the text the column type shows
Value(v) == [t |-> "value", v |-> v]

\* what the server stores for a literal of do_import_insert
server_value(literal) ==
    IF literal = <<"null">> THEN None
    ELSE IF Len(literal) = 3 /\ literal[1] = "'" THEN Value(literal[2])
    ELSE IF Len(literal) = 3 /\ literal[1] = "blobAs" THEN Value("")
    ELSE Value(literal[1])

\* the server refuses an insert that gives null to a clustering-key column
server_accepts(layout, rowmap) ==
    \A i \in 1..Len(rowmap) :
        layout[i].clustering => rowmap[i].literal # <<"null">>

\* format_value(v, t, nullval=nullval).strval: the field written for a value
format_value(val, nullval) == IF val = None THEN nullval ELSE val.v

\* the values a column of a stored row can hold: any text for a text column,
\* one value for a column of another type; a key column is never None
StoredValues(col) ==
    (IF (IF is_reversed(col.cqltype) THEN col.cqltype.subtypes[1]
         ELSE col.cqltype).cql = "text"
     THEN {Value(v) : v \in FieldTexts} ELSE {Value("a")})
    \cup (IF col.clustering THEN {} ELSE {None})

\* the rows a table of the layout can hold
StoredRows(layout) ==
    {row \in [1..Len(layout) -> {Value(v) : v \in FieldTexts} \cup {None}] :
        \A i \in 1..Len(layout) : row[i] \in StoredValues(layout[i])}

\* the records a source of CSV text can hold for a layout: the right number
\* of fields, or one field short
Records(layout) ==
    [1..Len(layout) -> FieldTexts] \cup [1..(Len(layout) - 1) -> {"a"}]

\* the last call the job made to the server: where it was made ("select",
\* "insert", "catalog"), how often the statement was submitted, and what the
\* last submission met
NoCall == [site |-> "none", attempts |-> 0, outcome |-> "ok"]

NoJob ==
    [dir |-> "none", pc |-> "idle", do_close |-> FALSE, stream |-> "none",
     header |-> FALSE, nullval |-> "", layout |-> <<>>, selects |-> 0,
     source |-> <<>>, csv |-> <<>>, unread |-> <<>>, from_export |-> FALSE,
     row |-> <<>>, rowmap |-> <<>>, target |-> <<>>, rownum |-> -1, rows |-> 0,
     opened |-> FALSE, returned |-> -1, exit |-> "none", call |-> NoCall]

-----------------------------------------------------------------------------
(* Schema Regenerator: print_recreate_columnfamily.  The output is the
   sequence of the pieces of text written to `out`; a class name is a record
   of its package prefix and its own name; an option map is the sequence of
   its <<key, value>> items. *)

\* most runs of the regenerator between two changes of the catalog
MaxRuns == 2

\* the runs kept on record from before a change of the catalog rows
MaxPast == 1

ClassName(prefix, name) == [prefix |-> prefix, name |-> name]

\* util.trim_if_present(s, prefix)
trim_if_present(s, prefix) ==
    IF s.prefix = prefix THEN [s EXCEPT !.prefix = ""] ELSE s

compaction_package == "org.apache.cassandra.db.compaction."
compress_package == "org.apache.cassandra.io.compress."

\* the text of a class name
class_text(c) == IF c.prefix = "" THEN <<c.name>> ELSE <<c.prefix, c.name>>

\* d.get(key): the value of the item of the map, <<>> for None
map_get(optmap, key) ==
    IF \E i \in 1..Len(optmap) : optmap[i][1] = key
    THEN <<optmap[CHOOSE i \in 1..Len(optmap) : optmap[i][1] = key][2]>>
    ELSE <<>>

\* d[key] = value: the item is replaced where it is, or added at the end
map_set(optmap, key, value) ==
    IF \E i \in 1..Len(optmap) : optmap[i][1] = key
    THEN [i \in 1..Len(optmap) |->
             IF optmap[i][1] = key THEN <<key, value>> ELSE optmap[i]]
    ELSE Append(optmap, <<key, value>>)

\* the rows of the catalog for one table, as get_columnfamily_layout reads
\* them: the definition of a table k (partition key), c (clustering key),
\* v (regular or static column)
CatalogRows ==
    [compact : BOOLEAN,
     c_reversed : BOOLEAN,
     v_static : BOOLEAN,
     v_index : {"", "KEYS", "CUSTOM"},
     compaction_strategy_class :
        {ClassName(compaction_package, "LeveledCompactionStrategy"),
         ClassName(compaction_package, "SizeTieredCompactionStrategy"),
         ClassName("com.example.", "OtherStrategy")},
     bloom_filter_fp_chance : {"", "0.5"},
     compaction_strategy_options :
        {<<>>, <<<<"min_threshold", ClassName("", "4")>>>>},
     compression_parameters :
        {<<>>,
         <<<<"sstable_compression", ClassName(compress_package, "LZ4Compressor")>>>>} ]

\* get_columnfamily_layout: the table definition decoded from the catalog
\* rows; every call decodes anew, so that its option maps are new objects
get_columnfamily_layout(rows) ==
    [name |-> "t",
     columns |-> <<[name |-> "k", cqltype |-> int_type, static |-> FALSE,
                    index_name |-> "", index_type |-> ""],
                   [name |-> "c",
                    cqltype |-> IF rows.c_reversed THEN ReversedType(int_type)
                                ELSE int_type,
                    static |-> FALSE, index_name |-> "", index_type |-> ""],
                   [name |-> "v", cqltype |-> text_type, static |-> rows.v_static,
                    index_name |-> IF rows.v_index = "" THEN "" ELSE "v_idx",
                    index_type |-> rows.v_index]>>,
     partition_key_columns |-> <<"k">>,
     clustering_key_columns |-> <<"c">>,
     comparator |-> <<IF rows.c_reversed THEN ReversedType(int_type) ELSE int_type>>,
     compact_storage |-> rows.compact,
     compaction_strategy_class |-> rows.compaction_strategy_class,
     bloom_filter_fp_chance |-> rows.bloom_filter_fp_chance,
     compaction_strategy_options |-> rows.compaction_strategy_options,
     compression_parameters |-> rows.compression_parameters]

RECURSIVE Flatten(_)
Flatten(parts) ==
    IF parts = <<>> THEN <<>> ELSE Head(parts) \o Flatten(Tail(parts))

\* sep.join(parts), every part being a sequence of pieces
RECURSIVE Join(_, _)
Join(sep, parts) ==
    IF parts = <<>> THEN <<>>
    ELSE IF Len(parts) = 1 THEN parts[1]
    ELSE parts[1] \o <<sep>> \o Join(sep, Tail(parts))

\* lines 1112-1125: CREATE TABLE and one line per column
column_lines(layout) ==
    <<"CREATE TABLE ", layout.name, " (\n">> \o
    Flatten([i \in 1..Len(layout.columns) |->
        LET col == layout.columns[i]
            coltype == IF is_reversed(col.cqltype) THEN col.cqltype.subtypes[1]
                       ELSE col.cqltype
        IN <<"  ", col.name, " ", coltype.cql>> \o
           (IF col.static THEN <<" static">> ELSE <<>>) \o <<",\n">>])

\* lines 1127-1136: the primary key, the partition key always in parentheses
primary_key(layout) ==
    <<"  PRIMARY KEY (">> \o
    Join(", ",
         <<<<"(">> \o Join(", ", [i \in 1..Len(layout.partition_key_columns) |->
                                     <<layout.partition_key_columns[i]>>]) \o <<")">>>>
         \o [i \in 1..Len(layout.clustering_key_columns) |->
                <<layout.clustering_key_columns[i]>>])
    \o <<")", "\n)">>

\* mutant: the compact storage clause leaves the joiner as it was
storage_clauses_joiner_kept(layout) ==
    LET clustering_types == layout.comparator
        descending == /\ layout.clustering_key_columns # <<>>
                      /\ \E i \in 1..Len(clustering_types) :
                            is_reversed(clustering_types[i])
    IN [out |-> (IF layout.compact_storage THEN <<" WITH COMPACT STORAGE">>
                 ELSE <<>>)
                \o (IF descending
                    THEN <<" WITH", " CLUSTERING ORDER BY (">>
                         \o Join(", ", [i \in 1..Len(layout.clustering_key_columns) |->
                               <<layout.clustering_key_columns[i], " ",
                                 IF is_reversed(clustering_types[i])
                                 THEN "DESC" ELSE "ASC">>])
                         \o <<")">>
                    ELSE <<>>),
        joiner |-> IF descending THEN "AND" ELSE "WITH"]

\* lines 1137-1168: COMPACT STORAGE and CLUSTERING ORDER BY; gives the text
\* and the joiner of the next clause
storage_clauses(layout) ==
    LET compact == IF layout.compact_storage THEN <<" WITH COMPACT STORAGE">>
                   ELSE <<>>
        clustering_types == layout.comparator
        descending == /\ layout.clustering_key_columns # <<>>
                      /\ \E i \in 1..Len(clustering_types) :
                            is_reversed(clustering_types[i])
        order == IF descending
                 THEN (IF layout.compact_storage THEN <<" AND\n ">> ELSE <<" WITH">>)
                      \o <<" CLUSTERING ORDER BY (">>
                      \o Join(", ", [i \in 1..Len(layout.clustering_key_columns) |->
                            <<layout.clustering_key_columns[i], " ",
                              IF is_reversed(clustering_types[i])
                              THEN "DESC" ELSE "ASC">>])
                      \o <<")">>
                 ELSE <<>>
    IN [out |-> compact \o order,
        joiner |-> IF layout.compact_storage \/ descending THEN "AND" ELSE "WITH"]

\* lines 1171-1187: the scalar options; only bloom_filter_fp_chance has a
\* default, which depends on the compaction strategy
scalar_options(layout) ==
    LET compaction_strategy ==
            trim_if_present(layout.compaction_strategy_class, compaction_package)
        optval == IF layout.bloom_filter_fp_chance = ""
                  THEN IF compaction_strategy.name = "LeveledCompactionStrategy"
                          /\ compaction_strategy.prefix = ""
                       THEN "0.1" ELSE "0.01"
                  ELSE layout.bloom_filter_fp_chance
    IN <<[name |-> "bloom_filter_fp_chance", ismap |-> FALSE,
          val |-> <<<<"", ClassName("", optval)>>>>]>>

\* lines 1188-1200: the map options; the maps of the layout are edited where
\* they are.  Gives the options and the layout after the edits.
map_options(layout) ==
    LET compaction_strategy ==
            trim_if_present(layout.compaction_strategy_class, compaction_package)
        compaction == map_set(layout.compaction_strategy_options, "class",
                              compaction_strategy)
        compclass == map_get(layout.compression_parameters, "sstable_compression")
        compression ==
            IF compclass # <<>>
            THEN map_set(layout.compression_parameters, "sstable_compression",
                         trim_if_present(compclass[1], compress_package))
            ELSE layout.compression_parameters
    IN [cf_opts |-> <<[name |-> "compaction", ismap |-> TRUE, val |-> compaction],
                      [name |-> "compression", ismap |-> TRUE, val |-> compression]>>,
        layout |-> [layout EXCEPT !.compaction_strategy_options = compaction,
                                  !.compression_parameters = compression]]

\* lines 1202-1210: one clause per option, the first after `joiner`
option_clauses(cf_opts, joiner) ==
    Flatten([i \in 1..Len(cf_opts) |->
        <<" ", IF i = 1 THEN joiner ELSE "AND", "\n  ", cf_opts[i].name, "=">> \o
        (IF cf_opts[i].ismap
         THEN <<"{">> \o
              Join(", ", [k \in 1..Len(cf_opts[i].val) |->
                    cql_protect_value(cf_opts[i].val[k][1]) \o <<": ">> \o
                    <<"'">> \o class_text(cf_opts[i].val[k][2]) \o <<"'">>])
              \o <<"}">>
         ELSE <<"'">> \o class_text(cf_opts[i].val[1][2]) \o <<"'">>)])
    \o <<";\n">>

\* lines 1212-1222: one CREATE INDEX statement per indexed column
index_statements(layout) ==
    Flatten([i \in 1..Len(layout.columns) |->
        LET col == layout.columns[i]
        IN IF col.index_name = "" THEN <<>>
           ELSE IF col.index_type # "CUSTOM"
           THEN <<"\n", "CREATE INDEX ", col.index_name, " ON ", layout.name,
                  " (", col.name, ");\n">>
           ELSE <<"\n", "CREATE CUSTOM INDEX ", col.index_name, " ON ",
                  layout.name, " (", col.name, ") USING '", "class_name", "';\n">>])

\* mutant: the list of options is kept from one run to the next
new_cf_opts_kept(runs) ==
    IF runs = <<>> THEN <<>> ELSE runs[Len(runs)].cf_opts

\* line 1170: cf_opts = [], whatever ran before
new_cf_opts(runs) == <<>>

\* print_recreate_columnfamily on a layout: the text written, and the
\* objects the run leaves behind (the edited layout, the list of options)
recreate_columnfamily(layout, cf_opts0) ==
    LET storage == storage_clauses(layout)
        maps == map_options(layout)
        cf_opts == cf_opts0 \o scalar_options(layout) \o maps.cf_opts
    IN [out |-> column_lines(layout) \o primary_key(layout) \o storage.out
                \o option_clauses(cf_opts, storage.joiner)
                \o index_statements(layout),
        layout |-> maps.layout,
        cf_opts |-> cf_opts]

\* mutant: the rows of an earlier operation are kept and used again
read_catalog_kept(r) ==
    IF r.past # <<>> THEN r.past[1].rows ELSE r.catalog[1]

\* the two selects of get_columnfamily_layout: the rows the server holds when
\* the call is made
read_catalog(r) == r.catalog[1]

\* Shell.get_column_names: the names of the columns of the layout just read
get_column_names(rows) ==
    LET layout == get_columnfamily_layout(rows)
    IN [i \in 1..Len(layout.columns) |-> layout.columns[i].name]

\* the rows an ALTER TABLE or a CREATE/DROP INDEX can leave in the place of
\* `rows`: one option or the index of v differs; compact storage, the
\* clustering order and the static columns are fixed when the table is made
Altered(rows) ==
    { r \in CatalogRows :
        /\ r # rows
        /\ r.compact = rows.compact
        /\ r.c_reversed = rows.c_reversed
        /\ r.v_static = rows.v_static
        /\ \E f \in {"v_index", "compaction_strategy_class",
                      "bloom_filter_fp_chance", "compaction_strategy_options",
                      "compression_parameters"} :
              r = [rows EXCEPT ![f] = r[f]] }

\* regen.catalog holds the catalog rows of the table once the server has
\* them; regen.runs holds one record per run since the rows last changed;
\* regen.copy holds what the COPY made since then has read; regen.past holds,
\* for each change of the rows that followed a run, the last run before it
NoRegen == [catalog |-> <<>>, runs |-> <<>>, copy |-> <<>>, past |-> <<>>]


-----------------------------------------------------------------------------
(* The lines the input can hold *)

InputLines ==
    { <<>>,
      <<";">>,
      <<"select", "t">>,
      <<"select", "t", ";">>,
      <<"SELECT", "t", "LIMIT", "5", ";">>,
      <<"select", "t", "allow", ";">>,
      <<"begin", "batch">>,
      <<"begin", "batch", "insert", "x", ";">>,
      <<"insert", "x", ";", "insert", "y", ";">>,
      <<"insert", "y", ";", "apply", "batch", ";">>,
      <<"use", "k", ";">>,
      <<"help">>,
      <<"tracing", "on">>,
      <<"tracing", "off">>,
      <<"Describe", "bogus">>,
      <<"copy", "t", "from", "f", ";">>,
      <<"exit">>,
      <<BadLexeme>> }

NumLines(text) == Cardinality({i \in 1..Len(text) : text[i] = "\n"})

\* statement.strip() is not empty
HasText(text) == \E i \in 1..Len(text) : text[i] # "\n"

-----------------------------------------------------------------------------
(* State *)

MainPrompt(ks) == [kind |-> "main", ks |-> ks]

\* proc.sub_error: a shell that do_source started reported an error;
\* proc.sub_differs: such a shell ended with session attributes other than
\* those of its parent;
\* proc.exit_status: the status main ended the process with (-1 while running)
\* proc.connect: the exception that ended the construction of the shell
NoProc ==
    [sub_error |-> FALSE, sub_differs |-> FALSE, exit_status |-> -1,
     connect |-> "none"]

\* an input of which nothing is known in advance
NoInput == [lines |-> <<>>, pos |-> 0]

\* read_options: the statement of --execute gets a terminator unless it ends
\* with one
execute_option(e) == IF e # <<>> /\ e[Len(e)] = ";" THEN e ELSE Append(e, ";")

\* the shell main started runs a single statement (options.execute) and is
\* the running shell
single_statement == options.execute /\ shells = <<>>

\* main with the given command line options, at `start`: "connect" before
\* the Shell object is constructed (the variables hold what the constructor
\* is going to assign), "read" once it is
InitReading(opts, start, usecolor, input) ==
    /\ statement = <<>>
    /\ stop = FALSE
    /\ statement_error = FALSE
    /\ current_keyspace = ""
    /\ prompt = MainPrompt("")
    /\ empty_lines = 0
    /\ tracing_enabled = FALSE
    /\ pc = start
    /\ pending = <<>>
    /\ lastcmd = <<>>
    /\ queued = [seen |-> <<>>, kind |-> "none", statements |-> <<>>,
                 interrupted |-> FALSE]
    /\ disp = NoDisp
    /\ eng = NoEng
    /\ ev = <<>>
    /\ imp = NoImp
    /\ expand_enabled = FALSE
    /\ consistency_level = "ONE"
    /\ query_out = "stdout"
    /\ shunted_query_out = ""
    /\ color = usecolor
    /\ shunted_color = <<>>
    /\ shells = <<>>
    /\ options = opts
    /\ proc = NoProc
    /\ job = NoJob
    /\ regen = NoRegen
    /\ stdin = input

\* a shell whose input is not given in full: any line can come next
InitColored(opts, start, usecolor) == InitReading(opts, start, usecolor, NoInput)

\* the shell main constructs, for the given command line options
\* a shell that colours its output
InitShell(opts, start) == InitColored(opts, start, TRUE)

InitWith(opts) == InitShell(opts, "read")

\* an interactive shell: neither --file nor --execute
Init == InitWith([file |-> FALSE, execute |-> FALSE])

\* Shell.set_continue_prompt: the new <<prompt, empty_lines>>
set_continue_prompt(lastline) ==
    IF empty_lines >= 3
    THEN <<[kind |-> "escalated", ks |-> current_keyspace], 0>>
    ELSE <<[kind |-> "continue", ks |-> current_keyspace],
           IF lastline = <<>> THEN empty_lines + 1 ELSE 0>>

\* Shell.reset_statement, and the test of the loop `while not self.stop`
\* a reset that leaves the prompt as it is
ResetStatement_keeps_prompt(ks, stp) ==
    /\ statement' = <<>>
    /\ UNCHANGED prompt
    /\ empty_lines' = 0
    /\ pc' = IF stp THEN "stopped" ELSE "read"

\* a reset that leaves the buffer as it is
ResetStatement_keeps_statement(ks, stp) ==
    /\ UNCHANGED statement
    /\ prompt' = MainPrompt(ks)
    /\ empty_lines' = 0
    /\ pc' = IF stp THEN "stopped" ELSE "read"

ResetStatement(ks, stp) ==
    /\ statement' = <<>>
    /\ prompt' = MainPrompt(ks)
    /\ empty_lines' = 0
    /\ pc' = IF stp THEN "stopped" ELSE "read"

\* a loop that passes over the statement after the one just handled
StatementDone_skips(ks, stp) ==
    LET rest == IF Len(pending) > 1 THEN Tail(Tail(pending)) ELSE <<>>
    IN /\ pending' = rest
       /\ IF rest = <<>>
          THEN ResetStatement(ks, stp)
          ELSE /\ pc' = "dispatch"
               /\ UNCHANGED <<statement, prompt, empty_lines>>

\* the end of one turn of the loop `for st in statements` of onecmd; after
\* the last statement onecmd returns True and cmdloop resets the buffer
StatementDone(ks, stp) ==
    /\ pending' = Tail(pending)
    /\ IF Tail(pending) = <<>>
       THEN ResetStatement(ks, stp)
       ELSE /\ pc' = "dispatch"
            /\ UNCHANGED <<statement, prompt, empty_lines>>

\* Shell.cmdloop, one turn: take a line (the single statement of the command
\* line, which sets the stop flag, or a line of the input), append it to the
\* buffer, run onecmd
cmdloop_turn(Lines, maxlines) ==
    /\ UNCHANGED <<settings, outer, job, regen>>
    /\ pc = "read"
    /\ NumLines(statement) < maxlines
    /\ \E given \in Lines :
        LET line == IF single_statement THEN execute_option(given)
                    ELSE given \o <<"\n">>
            text == statement \o line
            r == onecmd(text)
            scp == set_continue_prompt(given)
            stp == stop \/ single_statement
        IN /\ queued' = [seen |-> text, kind |-> r.kind,
                         statements |-> [i \in 1..Len(r.statements) |->
                                            cql_extract_orig(r.statements[i], text)],
                         interrupted |-> FALSE]
           /\ lastcmd' = IF single_statement THEN lastcmd ELSE given
           /\ disp' = NoDisp /\ eng' = NoEng /\ imp' = NoImp
           /\ ev' = IF r.kind = "lexerror"
                    THEN <<Event("syntax_error", charnum(text), "")>>
                    ELSE <<>>
           /\ stop' = stp
           /\ UNCHANGED <<current_keyspace, tracing_enabled>>
           /\ CASE r.kind = "lexerror" ->
                    \* three printerr calls, return True, reset_statement
                    /\ statement_error' = TRUE
                    /\ pending' = <<>>
                    /\ ResetStatement(current_keyspace, stp)
                [] r.kind = "empty" ->
                    /\ pending' = <<>>
                    /\ ResetStatement(current_keyspace, stp)
                    /\ UNCHANGED statement_error
                [] r.kind = "continue" ->
                    /\ statement' = text
                    /\ prompt' = scp[1]
                    /\ empty_lines' = scp[2]
                    /\ pending' = <<>>
                    /\ pc' = IF stp THEN "stopped" ELSE "read"
                    /\ UNCHANGED statement_error
                [] r.kind = "dispatch" ->
                    /\ statement' = text
                    /\ pending' = r.statements
                    /\ pc' = "dispatch"
                    /\ UNCHANGED <<statement_error, prompt, empty_lines>>

\* one turn of the loop on an input not given in full
ReadLineWithin(Lines, maxlines) ==
    cmdloop_turn(Lines, maxlines) /\ UNCHANGED stdin

ReadLineFrom(Lines) == ReadLineWithin(Lines, MaxBufLines)

ReadLine == ReadLineFrom(InputLines)

\* mutant: the end of input is never reported
eof_incomplete_never(text, kind) == FALSE

\* handle_eof: statement.strip() and not self.onecmd(statement), for the
\* kind of return of onecmd
eof_incomplete(text, kind) == HasText(text) /\ kind = "continue"

\* Shell.cmdloop on EOFError: handle_eof.  Between two lines the buffer is
\* empty or holds an incomplete statement (a handled buffer was reset), so
\* the onecmd call of handle_eof finds nothing to dispatch: it returns None
\* after set_continue_prompt and the incomplete statement is reported.
ReadEOF ==
    /\ UNCHANGED <<settings, outer, job, regen, stdin>>
    /\ pc = "read"
    /\ ~single_statement
    /\ LET r == onecmd(statement)
           scp == set_continue_prompt(lastcmd)
           incomplete == eof_incomplete(statement, r.kind)
       IN /\ queued' = [queued EXCEPT !.seen = statement,
                           !.kind = IF HasText(statement) THEN r.kind ELSE "eof",
                           !.statements = <<>>]
          /\ statement_error' = (statement_error \/ incomplete)
          /\ prompt' = IF incomplete THEN scp[1] ELSE prompt
          /\ empty_lines' = IF incomplete THEN scp[2] ELSE empty_lines
          /\ ev' = <<Event("eof", 0, "")>> \o
                    IF incomplete THEN <<Event("report", 0, "incomplete")>> ELSE <<>>
    /\ stop' = TRUE
    /\ pc' = "stopped"
    /\ disp' = NoDisp /\ eng' = NoEng /\ imp' = NoImp
    /\ UNCHANGED <<statement, lastcmd, current_keyspace, tracing_enabled, pending>>

\* Shell.cmdloop on KeyboardInterrupt: reset_statement; whatever was being
\* handled is abandoned
Interrupt ==
    /\ UNCHANGED <<settings, outer, job, regen, stdin>>
    /\ pc \in {"read", "dispatch", "execute", "import"}
    /\ pending' = <<>>
    /\ ResetStatement(current_keyspace, stop)
    /\ eng' = IF pc = "execute" THEN [eng EXCEPT !.result = "interrupted"] ELSE eng
    /\ imp' = [imp EXCEPT !.active = FALSE]
    /\ queued' = [queued EXCEPT !.interrupted = TRUE]
    /\ UNCHANGED <<stop, statement_error, lastcmd, current_keyspace,
                   tracing_enabled, disp, ev>>

-----------------------------------------------------------------------------
(* Shell.handle_statement and the handlers it calls *)

\* entry of perform_statement_untraced(text) for `caller`; `traced` is set
\* when perform_statement asked for a trace session first
StartEngine_no_trace_id(text, with_default_limit, caller, traced) ==
    /\ eng' = [NoEng EXCEPT !.statement = text, !.trynum = 1,
                            !.with_default_limit = with_default_limit,
                            !.caller = caller, !.traced = traced]
    /\ ev' = <<>>
    /\ pc' = "execute"

StartEngine(text, with_default_limit, caller, traced) ==
    /\ eng' = [NoEng EXCEPT !.statement = text, !.trynum = 1,
                            !.with_default_limit = with_default_limit,
                            !.caller = caller, !.traced = traced]
    /\ ev' = IF traced THEN <<Event("trace_next_query", 0, "")>> ELSE <<>>
    /\ pc' = "execute"

Dispatching == pc = "dispatch" /\ pending # <<>>

\* the record of one call of handle_statement; disp.handled lists the texts
\* of the statements of the buffer handed to handle_statement so far
Routed(tokens, handler, calls, improper) ==
    [route |-> route_of(tokens), tokens |-> tokens,
     orig |-> cql_extract_orig(tokens, statement), handler |-> handler,
     engine_calls |-> calls, improper |-> improper,
     handled |-> Append(disp.handled, cql_extract_orig(tokens, statement))]

\* no custom handler, or handle_parse_error for a command word that is
\* always forwarded: perform_statement(cql_extract_orig(tokens, srcstr))
Forward ==
    /\ UNCHANGED <<settings, outer, job, regen, stdin>>
    /\ Dispatching
    /\ LET tokens == Head(pending)
       IN /\ route_of(tokens) \in {"passthrough", "forward"}
          /\ disp' = Routed(tokens, "", 1, FALSE)
          /\ StartEngine(cql_extract_orig(tokens, statement), FALSE,
                         "statement", tracing_enabled)
    /\ imp' = NoImp
    /\ UNCHANGED <<statement, stop, statement_error, prompt, empty_lines, lastcmd,
                   current_keyspace, tracing_enabled, pending, queued>>

\* handle_parse_error for any other command word: 'Improper ... command'
Improper ==
    /\ UNCHANGED <<settings, outer, job, regen, stdin>>
    /\ Dispatching
    /\ LET tokens == Head(pending)
       IN /\ route_of(tokens) = "improper"
          /\ disp' = Routed(tokens, "", 0, TRUE)
    /\ statement_error' = TRUE
    /\ eng' = NoEng /\ ev' = <<>> /\ imp' = NoImp
    /\ StatementDone(current_keyspace, stop)
    /\ UNCHANGED <<stop, lastcmd, current_keyspace, tracing_enabled, queued>>

Builtin(name) ==
    /\ Dispatching
    /\ route_of(Head(pending)) = "builtin"
    /\ custom_handler(Head(pending)) = name

\* Shell.do_select
do_select ==
    /\ UNCHANGED <<settings, outer, job, regen, stdin>>
    /\ Builtin("select")
    /\ LET tokens == Head(pending)
           with_default_limit == get_binding(tokens, "limit") = ""
       IN /\ disp' = Routed(tokens, "select", 1, FALSE)
          /\ StartEngine(select_statement(cql_extract_orig(tokens, statement),
                                          with_default_limit),
                         with_default_limit, "statement", tracing_enabled)
    /\ imp' = NoImp
    /\ UNCHANGED <<statement, stop, statement_error, prompt, empty_lines, lastcmd,
                   current_keyspace, tracing_enabled, pending, queued>>

\* Shell.do_use, up to the return of perform_statement_untraced
do_use ==
    /\ UNCHANGED <<settings, outer, job, regen, stdin>>
    /\ Builtin("use")
    /\ LET tokens == Head(pending)
       IN /\ disp' = Routed(tokens, "use", 1, FALSE)
          /\ StartEngine(cql_extract_orig(tokens, statement), FALSE, "use", FALSE)
    /\ imp' = NoImp
    /\ UNCHANGED <<statement, stop, statement_error, prompt, empty_lines, lastcmd,
                   current_keyspace, tracing_enabled, pending, queued>>

\* Shell.do_tracing
do_tracing ==
    /\ UNCHANGED <<settings, outer, job, regen, stdin>>
    /\ Builtin("tracing")
    /\ LET tokens == Head(pending)
           switch == Upper(get_binding(tokens, "switch"))
       IN /\ disp' = Routed(tokens, "tracing", 0, FALSE)
          /\ CASE switch = "ON" ->
                    /\ tracing_enabled' = TRUE
                    /\ statement_error' = (statement_error \/ tracing_enabled)
               [] switch = "OFF" ->
                    /\ tracing_enabled' = FALSE
                    /\ statement_error' = (statement_error \/ ~tracing_enabled)
               [] OTHER -> UNCHANGED <<tracing_enabled, statement_error>>
          /\ ev' = IF (switch = "ON" /\ tracing_enabled)
                       \/ (switch = "OFF" /\ ~tracing_enabled)
                    THEN <<Event("printerr", 0, "tracing")>> ELSE <<>>
    /\ eng' = NoEng /\ imp' = NoImp
    /\ StatementDone(current_keyspace, stop)
    /\ UNCHANGED <<stop, lastcmd, current_keyspace, queued>>

\* Shell.do_help: writes the topics, changes nothing
do_help ==
    /\ UNCHANGED <<settings, outer, job, regen, stdin>>
    /\ Builtin("help")
    /\ disp' = Routed(Head(pending), "help", 0, FALSE)
    /\ eng' = NoEng /\ ev' = <<>> /\ imp' = NoImp
    /\ StatementDone(current_keyspace, stop)
    /\ UNCHANGED <<stop, statement_error, lastcmd, current_keyspace,
                   tracing_enabled, queued>>

\* Shell.do_exit
do_exit ==
    /\ UNCHANGED <<settings, outer, job, regen, stdin>>
    /\ Builtin("exit")
    /\ disp' = Routed(Head(pending), "exit", 0, FALSE)
    /\ stop' = TRUE
    /\ eng' = NoEng /\ ev' = <<>> /\ imp' = NoImp
    /\ StatementDone(current_keyspace, TRUE)
    /\ UNCHANGED <<statement_error, lastcmd, current_keyspace, tracing_enabled,
                   queued>>

\* Shell.do_copy ... FROM, up to the first record of perform_csv_import
do_copy ==
    /\ UNCHANGED <<settings, outer, job, regen, stdin>>
    /\ Builtin("copy")
    /\ Upper(get_binding(Head(pending), "dir")) = "FROM"
    /\ disp' = Routed(Head(pending), "copy", 0, FALSE)
    /\ eng' = NoEng /\ ev' = <<>>
    /\ \E found \in BOOLEAN, opened \in BOOLEAN :
        IF current_keyspace = "" \/ ~found
        THEN \* NoKeyspaceError or ColumnFamilyNotFound, reported by onecmd
             /\ statement_error' = TRUE
             /\ imp' = NoImp
             /\ StatementDone(current_keyspace, stop)
        ELSE IF ~opened
        THEN \* "Can't open ... for reading", return 0
             /\ statement_error' = TRUE
             /\ imp' = [NoImp EXCEPT !.returned = 0, !.cause = "open"]
             /\ StatementDone(current_keyspace, stop)
        ELSE /\ imp' = [NoImp EXCEPT !.active = TRUE]
             /\ pc' = "import"
             /\ UNCHANGED <<statement_error, statement, prompt, empty_lines, pending>>
    /\ UNCHANGED <<stop, lastcmd, current_keyspace, tracing_enabled, queued>>

-----------------------------------------------------------------------------
(* Shell.perform_csv_import: the loop over the records *)

\* the reader yields one more record with nfields fields
ImportRecord ==
    /\ UNCHANGED <<settings, outer, job, regen, stdin>>
    /\ pc = "import"
    /\ imp.rownum + 1 < MaxRecords
    /\ \E nfields \in {NumColumns - 1, NumColumns} :
        LET rownum == imp.rownum + 1
        IN IF wrong_field_count(nfields, NumColumns)
           THEN /\ statement_error' = TRUE
                /\ imp' = [imp EXCEPT !.active = FALSE, !.rownum = rownum,
                                      !.returned = import_abort_result(rownum),
                                      !.cause = "fields",
                                      !.bad = reported_record(rownum)]
                /\ StatementDone(current_keyspace, stop)
                /\ UNCHANGED <<eng, ev>>
           ELSE \* do_import_row, do_import_insert
                /\ imp' = [imp EXCEPT !.rownum = rownum, !.sent = Append(@, rownum)]
                /\ StartEngine(import_insert_text, FALSE, "import", FALSE)
                /\ UNCHANGED <<statement_error, statement, prompt, empty_lines,
                               pending>>
    /\ UNCHANGED <<stop, lastcmd, current_keyspace, tracing_enabled, queued, disp>>

\* the reader is exhausted: return rownum + 1
ImportEnd ==
    /\ UNCHANGED <<settings, outer, job, regen, stdin>>
    /\ pc = "import"
    /\ imp' = [imp EXCEPT !.active = FALSE,
                          !.returned = import_done_result(imp.rownum),
                          !.cause = "end"]
    /\ StatementDone(current_keyspace, stop)
    /\ UNCHANGED <<stop, statement_error, lastcmd, current_keyspace,
                   tracing_enabled, queued, disp, eng, ev>>

-----------------------------------------------------------------------------
(* Shell.perform_statement_untraced: one turn of the `while True` loop *)

\* the return of perform_statement_untraced with frame e and event log `log`
\* to its caller: perform_statement (which renders the trace), do_use
\* (which sets the keyspace) or perform_csv_import (which goes on or aborts)
EngineReturn(e, log, err) ==
    /\ eng' = e
    /\ statement_error' = (statement_error \/ err)
    /\ CASE e.caller = "statement" ->
              /\ ev' = IF e.traced
                       THEN log \o <<Event("settle", 0, ""),
                                     Event("print_trace_session", 0, "")>>
                       ELSE log
              /\ current_keyspace' = current_keyspace
              /\ imp' = imp
              /\ StatementDone(current_keyspace, stop)
         [] e.caller = "use" ->
              /\ ev' = log
              /\ current_keyspace' =
                    IF e.result = "ok"
                    THEN use_keyspace(get_binding(disp.tokens, "ksname"))
                    ELSE current_keyspace
              /\ imp' = imp
              /\ StatementDone(current_keyspace', stop)
         [] e.caller = "import" ->
              /\ ev' = log
              /\ current_keyspace' = current_keyspace
              /\ IF e.result = "ok"
                 THEN /\ imp' = [imp EXCEPT !.inserted = @ + 1]
                      /\ pc' = "import"
                      /\ UNCHANGED <<statement, prompt, empty_lines, pending>>
                 ELSE /\ imp' = [imp EXCEPT !.active = FALSE,
                                    !.returned = import_abort_result(imp.rownum),
                                    !.cause = "insert",
                                    !.bad = reported_record(imp.rownum)]
                      /\ StatementDone(current_keyspace, stop)

\* the cursors a statement can produce
CursorsFor(text) ==
    IF is_read_statement(text) THEN CursorResults
    ELSE {c \in CursorResults : c.rowcount <= 1 /\ ~c.is_count}

\* cursor.execute succeeds; the result is rendered and True returned
ExecuteOk ==
    /\ UNCHANGED <<settings, outer, job, regen, stdin>>
    /\ pc = "execute"
    /\ \E cursor \in CursorsFor(eng.statement) :
        EngineReturn(
            [eng EXCEPT !.result = "ok", !.cursor = cursor,
                        !.rendered = rendering(eng.statement, cursor),
                        !.warned = /\ is_read_statement(eng.statement)
                                   /\ default_limit_warning(cursor,
                                          eng.with_default_limit)],
            Append(ev, Event("execute", eng.trynum, "ok")), FALSE)
    /\ UNCHANGED <<stop, lastcmd, tracing_enabled, queued, disp>>

\* cursor.execute raises the error that is retried
ExecuteRetry ==
    /\ UNCHANGED <<settings, outer, job, regen, stdin>>
    /\ pc = "execute"
    /\ \E outcome \in Outcomes \ {"ok"} :
        /\ retryable(outcome)
        /\ LET log == ev \o <<Event("execute", eng.trynum, outcome),
                              Event("report", eng.trynum, outcome)>>
               trynum == eng.trynum + 1
           IN IF retry_exhausted(trynum)
              THEN EngineReturn([eng EXCEPT !.trynum = trynum, !.result = "failed"],
                                log, TRUE)
              ELSE /\ eng' = [eng EXCEPT !.trynum = trynum]
                   /\ ev' = Append(log, Event("sleep", retry_sleep(trynum), ""))
                   /\ statement_error' = TRUE
                   /\ UNCHANGED <<statement, prompt, empty_lines, current_keyspace,
                                  pc, pending, imp>>
    /\ UNCHANGED <<stop, lastcmd, tracing_enabled, queued, disp>>

\* cursor.execute raises any other error: one report, False returned
ExecuteAbort ==
    /\ UNCHANGED <<settings, outer, job, regen, stdin>>
    /\ pc = "execute"
    /\ \E outcome \in Outcomes \ {"ok"} :
        /\ ~retryable(outcome)
        /\ EngineReturn([eng EXCEPT !.result = "failed"],
                        ev \o <<Event("execute", eng.trynum, outcome),
                                Event("report", eng.trynum, outcome)>>,
                        TRUE)
    /\ UNCHANGED <<stop, lastcmd, tracing_enabled, queued, disp>>

-----------------------------------------------------------------------------

Next ==
    \/ ReadLine
    \/ ReadEOF
    \/ Interrupt
    \/ Forward
    \/ Improper
    \/ do_select
    \/ do_use
    \/ do_tracing
    \/ do_help
    \/ do_exit
    \/ do_copy
    \/ ImportRecord
    \/ ImportEnd
    \/ ExecuteOk
    \/ ExecuteRetry
    \/ ExecuteAbort

Spec == Init /\ [][Next]_vars

-----------------------------------------------------------------------------
(* Bulk Transfer Pipeline: perform_csv_export and perform_csv_import step by
   step.  job.exit names the way the job ended: "options" (unrecognized
   option), "open" (the file could not be opened), "select", "write",
   "header", "catalog", "fields", "insert" (a failure inside the try) or
   "end". *)

\* mutant: the stream is closed only when the job reaches its end
finally_close_at_end_only(do_close, stream, exit) ==
    IF do_close /\ exit = "end" THEN "closed" ELSE stream

\* the finally clause of perform_csv_export and of perform_csv_import
finally_close(do_close, stream, exit) ==
    IF do_close THEN "closed" ELSE stream

\* the job left by the try statement on the exit path `exit` returning `ret`
\* (-1 when an exception leaves the function)
JobExit(j, exit, ret) ==
    [j EXCEPT !.pc = "done", !.exit = exit, !.returned = ret,
              !.stream = finally_close(j.do_close, j.stream, exit)]

\* [d[0] for d in self.cursor.description]
header_row(layout) == [i \in 1..Len(layout) |-> layout[i].name]

\* the header row, when asked for, is what the sink holds before the loop
header_records(header, layout) ==
    IF header THEN <<header_row(layout)>> ELSE <<>>

\* mutant: the header is counted
export_result_counts_header(rows, header) == IF header THEN rows + 1 ELSE rows

\* the value perform_csv_export returns
export_result(rows, header) == rows

\* perform_csv_export up to the try statement: the options and the sink
perform_csv_export ==
    /\ job.pc = "idle"
    /\ \E layout \in Layouts, fname \in BOOLEAN, header \in BOOLEAN,
          nullval \in NullTokens, optsok \in BOOLEAN, opened \in BOOLEAN :
        LET j == [NoJob EXCEPT !.dir = "export", !.layout = layout,
                               !.header = header, !.nullval = nullval]
        IN job' = IF ~optsok
                  THEN [j EXCEPT !.pc = "done", !.exit = "options", !.returned = 0]
                  ELSE IF ~fname
                  THEN [j EXCEPT !.pc = "select", !.stream = "open"]
                  ELSE IF ~opened
                  THEN [j EXCEPT !.pc = "done", !.exit = "open", !.returned = 0]
                  ELSE [j EXCEPT !.pc = "select", !.stream = "open",
                                 !.do_close = TRUE, !.opened = TRUE]
    /\ UNCHANGED <<shellvars, settings, outer, regen, stdin>>

\* prep_export_dump, then the header row
prep_export_dump ==
    /\ job.dir = "export" /\ job.pc = "select"
    /\ \E conflicts \in 0..1, final \in FinalOutcomes, written \in BOOLEAN :
        LET call == cursor_execute("select", conflicts, final)
            j == [job EXCEPT !.selects = @ + call.attempts, !.call = call]
        IN /\ ~written => (job.header /\ call.outcome = "ok")
           /\ conflicts > 0 => final = "ok"
           /\ job' = IF call.outcome # "ok"
                     THEN JobExit(j, "select", -1)
                     ELSE IF ~written
                     THEN JobExit(j, "write", -1)
                     ELSE [j EXCEPT !.pc = "fetch",
                                    !.csv = header_records(j.header, j.layout)]
    /\ UNCHANGED <<shellvars, settings, outer, regen, stdin>>

\* one turn of the loop: fetchone gives a row, writerow writes its record
export_row ==
    /\ job.dir = "export" /\ job.pc = "fetch"
    /\ Len(job.source) < MaxRows
    /\ \E row \in StoredRows(job.layout), written \in BOOLEAN :
        LET record == [i \in 1..Len(row) |-> format_value(row[i], job.nullval)]
            j == [job EXCEPT !.source = Append(@, row)]
        IN job' = IF written
                  THEN [j EXCEPT !.rows = @ + 1, !.csv = Append(@, record)]
                  ELSE JobExit(j, "write", -1)
    /\ UNCHANGED <<shellvars, settings, outer, regen, stdin>>

\* fetchone gives None: the loop ends and the number of rows is returned
export_end ==
    /\ job.dir = "export" /\ job.pc = "fetch"
    /\ job' = JobExit(job, "end", export_result(job.rows, job.header))
    /\ UNCHANGED <<shellvars, settings, outer, regen, stdin>>

\* the last job exported the table to a file that an import can read back
ExportedFile ==
    job.dir = "export" /\ job.exit = "end" /\ job.do_close

\* perform_csv_import up to the loop: the options, the source and the header
\* line.  The source is standard input, a file of any records, or the file
\* the last export wrote (read with the same options for the same layout).
perform_csv_import ==
    /\ job.pc = "idle" \/ ExportedFile
    /\ \E layout \in Layouts, fname \in BOOLEAN, header \in BOOLEAN,
          nullval \in NullTokens, optsok \in BOOLEAN, opened \in BOOLEAN,
          reread \in BOOLEAN, lines \in BOOLEAN,
          conflicts \in 0..1, final \in FinalOutcomes :
        /\ reread = ExportedFile
        /\ conflicts > 0 => final = "ok"
        /\ (~optsok \/ (fname /\ ~opened) \/ (header /\ ~lines))
              => (conflicts = 0 /\ final = "ok")
        /\ reread => /\ fname /\ optsok /\ opened
                     /\ layout = job.layout /\ header = job.header
                     /\ nullval = job.nullval /\ lines = (job.csv # <<>>)
        /\ LET j == [NoJob EXCEPT !.dir = "import", !.layout = layout,
                                  !.header = header, !.nullval = nullval,
                                  !.from_export = reread,
                                  !.source = IF reread THEN job.source ELSE <<>>,
                                  !.unread = IF reread THEN job.csv ELSE <<>>]
               o == IF fname
                    THEN [j EXCEPT !.stream = "open", !.do_close = TRUE,
                                   !.opened = TRUE]
                    ELSE [j EXCEPT !.stream = "open"]
               catalog == cursor_execute("catalog", conflicts, final)
           IN job' = IF ~optsok
                     THEN [j EXCEPT !.pc = "done", !.exit = "options", !.returned = 0]
                     ELSE IF fname /\ ~opened
                     THEN [j EXCEPT !.pc = "done", !.exit = "open", !.returned = 0]
                     ELSE IF header /\ ~lines
                     THEN JobExit(o, "header", -1)
                     ELSE IF catalog.outcome # "ok"
                     THEN JobExit([o EXCEPT !.call = catalog], "catalog", -1)
                     ELSE [o EXCEPT !.pc = "records", !.call = catalog,
                                    !.unread = IF header /\ reread THEN Tail(@) ELSE @]
    /\ UNCHANGED <<shellvars, settings, outer, regen, stdin>>

\* one turn of the loop over the reader: the field count is tested, then
\* do_import_row sends the insert of the record
import_record ==
    /\ job.dir = "import" /\ job.pc = "records"
    /\ IF job.from_export THEN job.unread # <<>> ELSE job.rownum + 1 < MaxRows
    /\ \E rec \in Records(job.layout), conflicts \in 0..num_retries,
          final \in FinalOutcomes :
        LET wrong == wrong_field_count(Len(rec), Len(job.layout))
            call == perform_statement_untraced("insert", conflicts, final)
            inserted == call.outcome = "ok"
            rownum == job.rownum + 1
            j == [job EXCEPT !.rownum = rownum, !.row = rec,
                             !.unread = IF job.from_export THEN Tail(@) ELSE @]
            rowmap == do_import_row(job.layout, job.nullval, rec)
        IN /\ job.from_export => rec = Head(job.unread)
           /\ wrong => (conflicts = 0 /\ final = "ok")
           /\ conflicts >= num_retries => final = "ok"
           /\ (~wrong /\ inserted) => server_accepts(job.layout, rowmap)
           /\ job' =
                IF wrong
                THEN JobExit([j EXCEPT !.rowmap = <<>>], "fields",
                             import_abort_result(rownum))
                ELSE IF ~inserted
                THEN JobExit([j EXCEPT !.rowmap = rowmap, !.call = call], "insert",
                             import_abort_result(rownum))
                ELSE [j EXCEPT !.rowmap = rowmap, !.call = call,
                         !.target = Append(@, [i \in 1..Len(rowmap) |->
                                                  server_value(rowmap[i].literal)])]
    /\ UNCHANGED <<shellvars, settings, outer, regen, stdin>>

\* the reader is exhausted
import_end ==
    /\ job.dir = "import" /\ job.pc = "records"
    /\ job.from_export => job.unread = <<>>
    /\ job' = JobExit(job, "end", import_done_result(job.rownum))
    /\ UNCHANGED <<shellvars, settings, outer, regen, stdin>>

NextTransfer ==
    \/ perform_csv_export
    \/ prep_export_dump
    \/ export_row
    \/ export_end
    \/ perform_csv_import
    \/ import_record
    \/ import_end

SpecTransfer == Init /\ [][NextTransfer]_vars

-----------------------------------------------------------------------------
(* Schema Regenerator: the catalog and the runs of
   print_recreate_columnfamily *)

\* the server creates the table, or alters it after a run has read its rows
\* (the changes followed are those with a run on either side)
catalog_change ==
    /\ Len(regen.past) < MaxPast
    /\ regen.catalog = <<>> \/ regen.runs # <<>>
    /\ \E rows \in IF regen.catalog = <<>> THEN CatalogRows
                    ELSE Altered(regen.catalog[1]) :
        regen' = [catalog |-> <<rows>>, runs |-> <<>>, copy |-> <<>>,
                  past |-> IF regen.runs = <<>> THEN regen.past
                           ELSE Append(regen.past,
                                       regen.runs[Len(regen.runs)])]
    /\ UNCHANGED <<shellvars, settings, outer, job, stdin>>

\* Shell.print_recreate_columnfamily(ksname, cfname, out)
print_recreate_columnfamily ==
    /\ regen.catalog # <<>>
    /\ Len(regen.runs) < MaxRuns
    /\ LET rows == read_catalog(regen)
           layout == get_columnfamily_layout(rows)
           run == recreate_columnfamily(layout, new_cf_opts(regen.runs))
       IN regen' = [regen EXCEPT !.runs = Append(@,
                        [rows |-> rows, out |-> run.out,
                         layout |-> run.layout, cf_opts |-> run.cf_opts])]
    /\ UNCHANGED <<shellvars, settings, outer, job, stdin>>

\* the catalog reads of a COPY: the column list of do_copy when the command
\* names no columns, and the layout of perform_csv_import
copy_reads ==
    /\ regen.catalog # <<>>
    /\ regen.copy = <<>>
    /\ LET rows == read_catalog(regen)
       IN regen' = [regen EXCEPT !.copy =
                        <<[rows |-> rows, columns |-> get_column_names(rows),
                           layout |-> get_columnfamily_layout(rows)]>>]
    /\ UNCHANGED <<shellvars, settings, outer, job, stdin>>

NextRegen ==
    \/ catalog_change
    \/ print_recreate_columnfamily
    \/ copy_reads

SpecRegen == Init /\ [][NextRegen]_vars

-----------------------------------------------------------------------------
(* The continuation prompt: an interactive shell whose buffer may grow by
   empty lines while a statement is incomplete. *)

\* the lines typed: an empty line, the start of a statement, its terminator,
\* a statement followed by the start of another
PromptLines ==
    { <<>>, <<"select", "t">>, <<";">>, <<"insert", "x", ";", "select", "t">> }

ReadPromptLine == ReadLineWithin(PromptLines, MaxPromptLines)

NextPrompt ==
    \/ ReadPromptLine
    \/ ReadEOF
    \/ Interrupt
    \/ Forward
    \/ do_select
    \/ ExecuteOk
    \/ ExecuteRetry
    \/ ExecuteAbort

SpecPrompt == Init /\ [][NextPrompt]_vars

-----------------------------------------------------------------------------
(* The current keyspace: USE statements with names of either case, quoted or
   not, with tracing on or off. *)

UseLines ==
    { <<"use", "k", ";">>,
      <<"use", "K", ";">>,
      <<"use", "\"K\"", ";">>,
      <<"tracing", "on", ";">>,
      <<"tracing", "off", ";">>,
      <<"insert", "x", ";">> }

ReadUseLine == ReadLineFrom(UseLines)

NextUse ==
    \/ ReadUseLine
    \/ ReadEOF
    \/ Forward
    \/ do_use
    \/ do_tracing
    \/ ExecuteOk
    \/ ExecuteRetry
    \/ ExecuteAbort

SpecUse == Init /\ [][NextUse]_vars

-----------------------------------------------------------------------------
(* Session settings, SOURCE and the end of the process *)

\* a line that changes every setting of the session, one statement each
SettingsLine ==
    <<"use", "k", ";", "tracing", "on", ";", "expand", "on", ";",
      "consistency", "quorum", ";", "capture", "'g'", ";">>

\* the lines a session at the terminal (or the file of --file, or the
\* statement of --execute) can hold
SessionLines ==
    { SettingsLine,
      <<"source", "'f'">>,
      <<"insert", "x", ";">>,
      <<"use", "k">> }

\* the lines the file that SOURCE names can hold
ScriptLines ==
    { SettingsLine,
      <<"use", "k", ";">>,
      <<"exit">> }

\* the command line options main can be started with
OptionSets == [file : BOOLEAN, execute : BOOLEAN]

\* main: batch_mode = options.file or options.execute
batch_mode == options.file \/ options.execute

\* mutant: EXPAND ON and EXPAND OFF set the flag without a test
do_expand_unconditional ==
    /\ UNCHANGED <<consistency_level, query_out, shunted_query_out, color,
                   shunted_color, outer, job, regen, stdin>>
    /\ Builtin("expand")
    /\ LET tokens == Head(pending)
           switch == Upper(get_binding(tokens, "switch"))
       IN /\ disp' = Routed(tokens, "expand", 0, FALSE)
          /\ expand_enabled' = IF switch = "ON" THEN TRUE
                                ELSE IF switch = "OFF" THEN FALSE
                                ELSE expand_enabled
    /\ eng' = NoEng /\ ev' = <<>> /\ imp' = NoImp
    /\ StatementDone(current_keyspace, stop)
    /\ UNCHANGED <<stop, statement_error, lastcmd, current_keyspace,
                   tracing_enabled, queued>>

\* Shell.do_expand(parsed)
do_expand ==
    /\ UNCHANGED <<consistency_level, query_out, shunted_query_out, color,
                   shunted_color, outer, job, regen, stdin>>
    /\ Builtin("expand")
    /\ LET tokens == Head(pending)
           switch == Upper(get_binding(tokens, "switch"))
       IN /\ disp' = Routed(tokens, "expand", 0, FALSE)
          /\ CASE switch = "ON" ->
                    /\ expand_enabled' = TRUE
                    /\ statement_error' = (statement_error \/ expand_enabled)
               [] switch = "OFF" ->
                    /\ expand_enabled' = FALSE
                    /\ statement_error' = (statement_error \/ ~expand_enabled)
               [] OTHER -> UNCHANGED <<expand_enabled, statement_error>>
          /\ ev' = IF (switch = "ON" /\ expand_enabled)
                       \/ (switch = "OFF" /\ ~expand_enabled)
                    THEN <<Event("printerr", 0, "expand")>> ELSE <<>>
    /\ eng' = NoEng /\ imp' = NoImp
    /\ StatementDone(current_keyspace, stop)
    /\ UNCHANGED <<stop, lastcmd, current_keyspace, tracing_enabled, queued>>

\* Shell.do_consistency(parsed)
do_consistency ==
    /\ UNCHANGED <<expand_enabled, query_out, shunted_query_out, color,
                   shunted_color, outer, job, regen, stdin>>
    /\ Builtin("consistency")
    /\ LET tokens == Head(pending)
           level == get_binding(tokens, "level")
       IN /\ disp' = Routed(tokens, "consistency", 0, FALSE)
          /\ consistency_level' = IF level = "" THEN consistency_level
                                  ELSE Upper(level)
    /\ eng' = NoEng /\ ev' = <<>> /\ imp' = NoImp
    /\ StatementDone(current_keyspace, stop)
    /\ UNCHANGED <<stop, statement_error, lastcmd, current_keyspace,
                   tracing_enabled, queued>>

\* mutant: CAPTURE OFF leaves the color flag as capture set it
do_capture_keeps_color_off ==
    /\ UNCHANGED <<expand_enabled, consistency_level, outer, job, regen, stdin>>
    /\ Builtin("capture")
    /\ LET tokens == Head(pending)
           fname == get_binding(tokens, "fname")
           refused == /\ statement_error' = TRUE
                      /\ UNCHANGED <<query_out, shunted_query_out, color,
                                     shunted_color>>
       IN /\ disp' = Routed(tokens, "capture", 0, FALSE)
          /\ CASE fname = "" ->
                    UNCHANGED <<query_out, shunted_query_out, color,
                                shunted_color, statement_error>>
               [] Upper(fname) = "OFF" ->
                    IF shunted_query_out = ""
                    THEN refused
                    ELSE /\ query_out' = shunted_query_out
                         /\ color' = color
                         /\ shunted_query_out' = ""
                         /\ shunted_color' = <<>>
                         /\ UNCHANGED statement_error
               [] OTHER ->
                    IF shunted_query_out # ""
                    THEN refused
                    ELSE \E opened \in BOOLEAN :
                            IF opened
                            THEN /\ shunted_query_out' = query_out
                                 /\ shunted_color' = <<color>>
                                 /\ query_out' = fname
                                 /\ color' = FALSE
                                 /\ UNCHANGED statement_error
                            ELSE refused
    /\ eng' = NoEng /\ ev' = <<>> /\ imp' = NoImp
    /\ StatementDone(current_keyspace, stop)
    /\ UNCHANGED <<stop, lastcmd, current_keyspace, tracing_enabled, queued>>

\* Shell.do_capture(parsed); opened is whether open(fname, 'a') succeeds
do_capture ==
    /\ UNCHANGED <<expand_enabled, consistency_level, outer, job, regen, stdin>>
    /\ Builtin("capture")
    /\ LET tokens == Head(pending)
           fname == get_binding(tokens, "fname")
           refused == /\ statement_error' = TRUE
                      /\ UNCHANGED <<query_out, shunted_query_out, color,
                                     shunted_color>>
       IN /\ disp' = Routed(tokens, "capture", 0, FALSE)
          /\ CASE fname = "" ->
                    UNCHANGED <<query_out, shunted_query_out, color,
                                shunted_color, statement_error>>
               [] Upper(fname) = "OFF" ->
                    IF shunted_query_out = ""
                    THEN refused
                    ELSE /\ query_out' = shunted_query_out
                         /\ color' = shunted_color[1]
                         /\ shunted_query_out' = ""
                         /\ shunted_color' = <<>>
                         /\ UNCHANGED statement_error
               [] OTHER ->
                    IF shunted_query_out # ""
                    THEN refused
                    ELSE \E opened \in BOOLEAN :
                            IF opened
                            THEN /\ shunted_query_out' = query_out
                                 /\ shunted_color' = <<color>>
                                 /\ query_out' = fname
                                 /\ color' = FALSE
                                 /\ UNCHANGED statement_error
                            ELSE refused
    /\ eng' = NoEng /\ ev' = <<>> /\ imp' = NoImp
    /\ StatementDone(current_keyspace, stop)
    /\ UNCHANGED <<stop, lastcmd, current_keyspace, tracing_enabled, queued>>

\* the attributes of the running Shell object and the place its onecmd loop
\* is at
ThisShell ==
    [statement |-> statement, stop |-> stop, statement_error |-> statement_error,
     prompt |-> prompt, empty_lines |-> empty_lines, lastcmd |-> lastcmd,
     current_keyspace |-> current_keyspace, tracing_enabled |-> tracing_enabled,
     expand_enabled |-> expand_enabled, consistency_level |-> consistency_level,
     query_out |-> query_out, shunted_query_out |-> shunted_query_out,
     color |-> color, shunted_color |-> shunted_color,
     pending |-> pending, queued |-> queued, disp |-> disp]

\* Shell.__init__ as do_source calls it: no keyspace, tracing_enabled and
\* expand_enabled at their defaults, a cursor of its own, tty=False, so that
\* the prompt stays '' until the first reset_statement (do_source passes
\* color=self.color: see do_source)
NewShell ==
    [statement |-> <<>>, stop |-> FALSE, statement_error |-> FALSE,
     prompt |-> [kind |-> "none", ks |-> ""], empty_lines |-> 0, lastcmd |-> <<>>,
     current_keyspace |-> "", tracing_enabled |-> FALSE,
     expand_enabled |-> FALSE, consistency_level |-> "ONE",
     query_out |-> "stdout", shunted_query_out |-> "",
     color |-> TRUE, shunted_color |-> <<>>,
     pending |-> <<>>,
     queued |-> [seen |-> <<>>, kind |-> "none", statements |-> <<>>,
                 interrupted |-> FALSE],
     disp |-> NoDisp]

\* the Shell object sh becomes the running one
LoadShell(sh) ==
    /\ statement' = sh.statement
    /\ stop' = sh.stop
    /\ statement_error' = sh.statement_error
    /\ prompt' = sh.prompt
    /\ empty_lines' = sh.empty_lines
    /\ lastcmd' = sh.lastcmd
    /\ current_keyspace' = sh.current_keyspace
    /\ tracing_enabled' = sh.tracing_enabled
    /\ expand_enabled' = sh.expand_enabled
    /\ consistency_level' = sh.consistency_level
    /\ query_out' = sh.query_out
    /\ shunted_query_out' = sh.shunted_query_out
    /\ color' = sh.color
    /\ shunted_color' = sh.shunted_color
    /\ pending' = sh.pending
    /\ queued' = sh.queued
    /\ disp' = sh.disp

\* the session attributes of a Shell object
SessionOf(sh) ==
    <<sh.current_keyspace, sh.tracing_enabled, sh.expand_enabled,
      sh.consistency_level, sh.query_out>>

\* a subshell that works on the attributes of its parent
parent_after_source_shared(parent, subshell) ==
    [subshell EXCEPT !.statement = parent.statement, !.stop = parent.stop,
                     !.statement_error = parent.statement_error,
                     !.prompt = parent.prompt, !.lastcmd = parent.lastcmd,
                     !.pending = parent.pending, !.queued = parent.queued,
                     !.disp = parent.disp]

\* mutant: the stop flag is one flag for all shells
parent_after_source_stop_shared(parent, subshell) ==
    [parent EXCEPT !.stop = subshell.stop]

\* do_source after subshell.cmdloop(): self is the object it was; nothing
\* of the subshell is read
parent_after_source(parent, subshell) == parent

\* Shell.do_source(parsed) up to subshell.cmdloop(); opened is whether
\* open(fname, 'r') succeeds
do_source ==
    /\ UNCHANGED <<options, proc, job, regen, stdin>>
    /\ Builtin("source")
    /\ eng' = NoEng /\ ev' = <<>> /\ imp' = NoImp
    /\ \E opened \in BOOLEAN :
        LET tokens == Head(pending)
            handled == Routed(tokens, "source", 0, FALSE)
        IN IF opened
           THEN /\ shells' = Append(shells, [ThisShell EXCEPT !.disp = handled])
                /\ LoadShell([NewShell EXCEPT !.color = color])
                /\ pc' = "read"
           ELSE /\ disp' = handled
                /\ statement_error' = TRUE
                /\ StatementDone(current_keyspace, stop)
                /\ UNCHANGED <<settings, shells, stop, lastcmd, current_keyspace,
                               tracing_enabled, queued>>

\* the cmdloop of the subshell ends (end of the script, or EXIT in it) and
\* do_source goes on in the parent
SubshellReturn ==
    /\ UNCHANGED <<options, job, regen, stdin>>
    /\ pc = "stopped"
    /\ shells # <<>>
    /\ LoadShell(parent_after_source(Last(shells), ThisShell))
    /\ shells' = Front(shells)
    /\ proc' = [proc EXCEPT !.sub_error = @ \/ statement_error,
                            !.sub_differs =
                                @ \/ SessionOf(ThisShell) # SessionOf(Last(shells))]
    /\ eng' = NoEng /\ imp' = NoImp
    /\ ev' = <<Event("subshell", 0,
                     IF disp.handler = "exit" THEN "exit" ELSE "eof")>>
    /\ pc' = "sourced"

\* do_source returns after f.close(); the loop of onecmd goes on
SourceDone ==
    /\ UNCHANGED <<settings, outer, job, regen, stdin>>
    /\ pc = "sourced"
    /\ StatementDone(current_keyspace, stop)
    /\ UNCHANGED <<stop, statement_error, lastcmd, current_keyspace,
                   tracing_enabled, queued, disp, eng, ev, imp>>

\* a main without the test of batch_mode
exit_status_any_mode(batch, error) == IF error THEN 2 ELSE 0

\* main after shell.cmdloop(): sys.exit(2) or the end of the script
exit_status(batch, error) == IF batch /\ error THEN 2 ELSE 0

\* main: the cmdloop of the shell main started has ended
ProcessExit ==
    /\ UNCHANGED <<statement, stop, statement_error, prompt, empty_lines, lastcmd,
                   current_keyspace, tracing_enabled, pending, queued, disp, eng,
                   ev, imp, settings, shells, options, job, regen, stdin>>
    /\ pc = "stopped"
    /\ shells = <<>>
    /\ proc' = [proc EXCEPT !.exit_status = exit_status(batch_mode, statement_error)]
    /\ pc' = "exited"

ReadSessionLine ==
    ReadLineFrom(IF shells = <<>> THEN SessionLines ELSE ScriptLines)

\* the exceptions that main catches around the construction of the Shell
ConstructionErrors == {"KeyboardInterrupt", "CQL_ERRORS", "VersionNotSupported"}

\* mutant: the construction failure ends the process like a batch error
construction_exit_status_batch(e) == 2

\* main: sys.exit(<message>) in each except clause; the interpreter turns an
\* exit with a message into the status message_exit_status
construction_exit_status(e) == message_exit_status

\* main: Shell(...) returns, shell.cmdloop() starts
ShellConstructed ==
    /\ pc = "connect"
    /\ pc' = "read"
    /\ UNCHANGED <<statement, stop, statement_error, prompt, empty_lines, lastcmd,
                   current_keyspace, tracing_enabled, pending, queued, disp, eng,
                   ev, imp, settings, outer, job, regen, stdin>>

\* main: Shell(...) raises while it connects; the message is written and
\* the process ends
ConnectionFailed ==
    /\ pc = "connect"
    /\ \E e \in ConstructionErrors :
          proc' = [proc EXCEPT !.connect = e,
                               !.exit_status = construction_exit_status(e)]
    /\ pc' = "exited"
    /\ UNCHANGED <<statement, stop, statement_error, prompt, empty_lines, lastcmd,
                   current_keyspace, tracing_enabled, pending, queued, disp, eng,
                   ev, imp, settings, shells, options, job, regen, stdin>>

InitSession == \E opts \in OptionSets : InitShell(opts, "connect")

NextSession ==
    \/ ShellConstructed
    \/ ConnectionFailed
    \/ ReadSessionLine
    \/ ReadEOF
    \/ Interrupt
    \/ Forward
    \/ Improper
    \/ do_use
    \/ do_tracing
    \/ do_expand
    \/ do_consistency
    \/ do_capture
    \/ do_source
    \/ do_exit
    \/ ExecuteOk
    \/ ExecuteRetry
    \/ ExecuteAbort
    \/ SubshellReturn
    \/ SourceDone
    \/ ProcessExit

SpecSession == InitSession /\ [][NextSession]_vars

-----------------------------------------------------------------------------
(* The two flags: TRACING and EXPAND with ON, OFF or no argument *)

FlagLines ==
    { <<"tracing">>, <<"tracing", "on">>, <<"tracing", "off", ";">>,
      <<"expand">>, <<"expand", "on", ";">>, <<"expand", "off">> }

ReadFlagLine == ReadLineFrom(FlagLines)

NextFlags ==
    \/ ReadFlagLine
    \/ ReadEOF
    \/ do_tracing
    \/ do_expand

SpecFlags == Init /\ [][NextFlags]_vars

-----------------------------------------------------------------------------
(* Output capture: CAPTURE with a file, OFF or no argument, in a shell that
   colours its output or not *)

CaptureLines ==
    { <<"capture">>, <<"capture", "off">>, <<"capture", "'g'">>,
      <<"capture", "off", ";">>, <<"capture", "'h'", ";">> }

ReadCaptureLine == ReadLineFrom(CaptureLines)

InitCapture ==
    \E usecolor \in BOOLEAN :
        InitColored([file |-> FALSE, execute |-> FALSE], "read", usecolor)

NextCapture ==
    \/ ReadCaptureLine
    \/ ReadEOF
    \/ do_capture

SpecCapture == InitCapture /\ [][NextCapture]_vars

-----------------------------------------------------------------------------
(* Properties *)

CountEv(log, e) == Cardinality({i \in 1..Len(log) : log[i].e = e})

Submissions == {i \in 1..Len(ev) : ev[i].e = "execute"}

\* the last report of the engine is followed by no sleep and no submission
NothingAfterReport(i) ==
    \A j \in (i + 1)..Len(ev) : ev[j].e \notin {"execute", "report", "sleep"}

\* every submission of the running statement met a retryable conflict and
\* the engine has returned failure
ConflictsOnly ==
    /\ eng.result = "failed"
    /\ \A i \in Submissions : ev[i].k = "integrity"

\* C1: when every submission of a statement fails with a retryable conflict,
\* the statement is submitted exactly 4 times, each failed attempt is
\* reported (the report of attempt 4 is the final one, no sleep follows it),
\* the result is failure, the stop flag stays clear and the read loop goes
\* on: with the next statement of the buffer or, the buffer emptied, with
\* the next line.
C1_RetryExhausted ==
    ConflictsOnly =>
        /\ num_retries = 4
        /\ Cardinality(Submissions) = 4
        /\ CountEv(ev, "report") = 4
        /\ \A n \in 1..4 : \E i \in 1..(Len(ev) - 1) :
              /\ ev[i] = Event("execute", n, "integrity")
              /\ ev[i + 1] = Event("report", n, "integrity")
              /\ (n = 4 => NothingAfterReport(i + 1))
        /\ statement_error
        /\ ~stop
        /\ pc \in {"read", "dispatch"}
        /\ (pc = "read" => statement = <<>> /\ pending = <<>>)

C1_Witness ==
    /\ ConflictsOnly
    /\ eng.caller = "statement"
    /\ Cardinality(Submissions) = 4
    /\ pc = "read"

\* C2: a malformed-request failure, or any failure other than a retryable
\* conflict, ends the engine call at that submission: one report follows
\* it, then no sleep and no further submission, the result is failure and
\* the shell goes on; when it meets the first submission the statement was
\* submitted exactly once, with exactly one report and no sleep.
C2_AbortAtOnce ==
    \A i \in Submissions :
        ev[i].k \notin {"ok", "integrity"} =>
            /\ eng.result = "failed"
            /\ i < Len(ev)
            /\ ev[i + 1] = Event("report", ev[i].n, ev[i].k)
            /\ NothingAfterReport(i + 1)
            /\ (ev[i].n = 1 =>
                    /\ Cardinality(Submissions) = 1
                    /\ CountEv(ev, "report") = 1
                    /\ CountEv(ev, "sleep") = 0)
            /\ ~stop
            /\ pc \in {"read", "dispatch"}

C2_Witness ==
    /\ eng.result = "failed"
    /\ Len(ev) = 2
    /\ ev[1] = Event("execute", 1, "programming")
    /\ pc = "read"

\* the lexemes of a text without its line breaks
Words(text) == SelectSeq(text, LAMBDA x : x # "\n")

NumTerminators(text) == Cardinality({i \in 1..Len(text) : text[i] = ";"})

\* a text whose first word is neither a command that a line break ends nor
\* the opening of a batch, and that holds no lexing error
PlainText(text) ==
    /\ Words(text) # <<>>
    /\ ~LexingError(text)
    /\ Lower(Words(text)[1]) \notin my_commands_ending_with_newline
    /\ Words(text)[1] \notin {"begin", ";"}

\* C3: for a statement entered on N lines of which only the last ends in
\* the terminator (no batch region), nothing is dispatched after the lines
\* before the last, and after the last line exactly one statement is
\* dispatched, whose text is the N lines joined by their line breaks;
\* once it is handled the buffer is empty.
C3_OneStatementFromNLines ==
    PlainText(queued.seen) =>
        /\ NumTerminators(queued.seen) = 0 =>
              /\ queued.kind = "continue"
              /\ queued.statements = <<>>
              /\ pending = <<>> /\ disp = NoDisp /\ eng = NoEng
        /\ ( /\ NumTerminators(queued.seen) = 1
             /\ Last(Words(queued.seen)) = ";"
             /\ queued.kind # "eof" ) =>
              /\ queued.kind = "dispatch"
              /\ queued.statements = <<Front(queued.seen)>>
              /\ Len(pending) <= 1
              /\ (pc = "read" => statement = <<>>)

C3_Witness ==
    /\ PlainText(queued.seen)
    /\ NumLines(queued.seen) = 2
    /\ queued.statements = <<Front(queued.seen)>>
    /\ disp.orig = <<"select", "t", "\n", ";">>
    /\ eng.result = "ok"
    /\ pc = "read"

\* a text that opens a batch region and does not close it
OpenBatchText(text) ==
    /\ ~LexingError(text)
    /\ Len(Words(text)) > 2
    /\ Words(text)[1] = "begin"
    /\ NumTerminators(text) >= 1
    /\ \A i \in 1..Len(text) : text[i] # "apply"

\* a text that opens a batch region and closes it with its last statement
ClosedBatchText(text) ==
    /\ ~LexingError(text)
    /\ Len(Words(text)) >= 5
    /\ Words(text)[1] = "begin"
    /\ LET w == Words(text)
       IN /\ SubSeq(w, Len(w) - 2, Len(w)) = <<"apply", "batch", ";">>
          /\ \A i \in 1..(Len(w) - 3) : w[i] # "apply"

\* C4: while a batch region is open nothing is dispatched, although inner
\* statements end in the terminator; when the region closes, the whole
\* region is dispatched as exactly one statement.
C4_BatchRegion ==
    /\ OpenBatchText(queued.seen) /\ queued.kind # "eof" =>
          /\ queued.kind = "continue"
          /\ queued.statements = <<>>
          /\ pending = <<>> /\ disp = NoDisp /\ eng = NoEng
    /\ ClosedBatchText(queued.seen) =>
          /\ queued.kind = "dispatch"
          /\ queued.statements = <<Front(queued.seen)>>
          /\ Len(pending) <= 1
          /\ (disp # NoDisp => eng.statement = Front(queued.seen))

C4_Witness ==
    /\ ClosedBatchText(queued.seen)
    /\ NumTerminators(queued.seen) = 3
    /\ eng.statement =
          <<"begin", "batch", "insert", "x", ";", "\n",
            "insert", "y", ";", "apply", "batch", ";">>
    /\ eng.result = "ok"

\* the last statement handled names a builtin and failed the builtin parse
FailedBuiltinParse ==
    /\ disp.tokens # <<>>
    /\ Lower(cmdword_of(disp.tokens)) \in do_names
    /\ ~cql_whole_parse_tokens(disp.tokens)

\* the last statement handled was handed to the engine as it was written
ForwardedVerbatim ==
    /\ disp.engine_calls = 1
    /\ disp.handler = ""
    /\ eng.caller = "statement"
    /\ eng.statement = SubSeq(queued.seen, disp.tokens[1].pos,
                              Last(disp.tokens).pos)
    /\ ~eng.with_default_limit

\* C5: a statement whose leading word names a builtin (whatever its case)
\* and that fails the builtin parse is forwarded as written if and only if
\* that word is one of select, insert, update, delete, truncate, create,
\* drop, alter, grant, revoke, batch, list; otherwise 'Improper command' is
\* reported, nothing is submitted and no handler runs.
C5_ParseFailureFallback ==
    FailedBuiltinParse =>
        IF Lower(disp.tokens[1].text) \in
              {"select", "insert", "update", "delete", "truncate", "create",
               "drop", "alter", "grant", "revoke", "batch", "list"}
        THEN ForwardedVerbatim /\ ~disp.improper
        ELSE /\ disp.improper
             /\ statement_error
             /\ disp.engine_calls = 0
             /\ disp.handler = ""
             /\ eng = NoEng /\ ev = <<>> /\ imp = NoImp

C5_Witness ==
    /\ FailedBuiltinParse
    /\ disp.tokens[1].text = "Describe"
    /\ disp.improper

\* C6: a statement whose leading word names no builtin is handed to the
\* engine exactly once, with its text as written, and no handler runs.
C6_PassThroughVerbatim ==
    (disp.tokens # <<>> /\ Lower(cmdword_of(disp.tokens)) \notin do_names) =>
        ForwardedVerbatim /\ ~disp.improper

C6_Witness ==
    /\ ForwardedVerbatim
    /\ eng.statement = <<"insert", "y", ";">>
    /\ eng.result = "ok"

\* the last statement handled is a SELECT that reached the engine
SelectDispatched ==
    /\ disp.tokens # <<>>
    /\ Lower(disp.tokens[1].text) = "select"
    /\ eng.caller = "statement"

HasLimit(text) == \E i \in 1..Len(text) : Lower(text[i]) = "limit"

Capped(text) == Front(text) \o <<"LIMIT", "10000", ";">>

\* C7 as stated: every SELECT without an explicit limit reaches the server
\* with LIMIT 10000 appended, and one with an explicit limit unchanged.
C7_Original ==
    SelectDispatched =>
        eng.statement = IF HasLimit(disp.orig) THEN disp.orig
                        ELSE Capped(disp.orig)

\* C7 amended: a SELECT that the builtin grammar parses and that has no
\* explicit limit reaches the server with LIMIT 10000 appended; a SELECT
\* with an explicit limit, and a SELECT that the builtin grammar does not
\* parse, reach the server unchanged.
C7_DefaultLimit ==
    SelectDispatched =>
        /\ eng.statement =
              IF cql_whole_parse_tokens(disp.tokens) /\ ~HasLimit(disp.orig)
              THEN Capped(disp.orig) ELSE disp.orig
        /\ eng.with_default_limit =
              (cql_whole_parse_tokens(disp.tokens) /\ ~HasLimit(disp.orig))
        /\ DEFAULT_SELECT_LIMIT = 10000

C7_Witness ==
    /\ SelectDispatched
    /\ disp.orig = <<"select", "t", ";">>
    /\ eng.statement = <<"select", "t", "LIMIT", "10000", ";">>
    /\ eng.result = "ok"

\* the last engine call was a read that succeeded
ReadSucceeded ==
    /\ eng.result = "ok"
    /\ is_read_statement(eng.statement)

\* C8 as stated: with the default cap the warning is written if and only
\* if the row count is 10000; with an explicit limit it is never written.
C8_Original ==
    ReadSucceeded =>
        eng.warned = (eng.with_default_limit /\ eng.cursor.rowcount = 10000)

\* C8 amended: with the default cap the warning is written if and only if
\* the row count is 10000 or the result is a count result whose count is
\* 10000 (so not at 9999 rows or fewer unless such a count is returned);
\* with an explicit limit it is never written.
C8_TruncationWarning ==
    ReadSucceeded =>
        eng.warned =
            /\ eng.with_default_limit
            /\ \/ eng.cursor.rowcount = 10000
               \/ eng.cursor.is_count /\ eng.cursor.count = 10000

C8_Witness ==
    /\ ReadSucceeded
    /\ eng.with_default_limit
    /\ eng.cursor.rowcount = 10000
    /\ eng.warned

\* the inserts of an import were submitted one per record, in source order
SentInOrder == \A i \in 1..Len(imp.sent) : imp.sent[i] = i - 1

\* C9: the first record with a wrong number of fields ends the import: no
\* insert is submitted for it or for a later record, the records before it
\* stay inserted, and the value returned is their number (4 when the bad
\* record is the 5th).
C9_WrongFieldCount ==
    imp.cause = "fields" =>
        /\ ~imp.active
        /\ pc # "import"
        /\ imp.bad = imp.rownum
        /\ Len(imp.sent) = imp.bad /\ SentInOrder
        /\ imp.inserted = imp.bad
        /\ imp.returned = imp.bad
        /\ (imp.bad = 4 => imp.returned = 4)
        /\ eng.caller \in {"none", "import"}
        /\ (eng.caller = "import" => eng.result = "ok")

C9_Witness ==
    /\ imp.cause = "fields"
    /\ imp.bad = 4
    /\ imp.returned = 4
    /\ imp.inserted = 4

\* C10: every record is submitted as one insert of its own, in source
\* order; the first failed insert ends the import with no later record
\* submitted; the value returned is the number of records whose insert
\* succeeded (0 for an empty source, the number of records when all
\* succeed).
C10_ImportCount ==
    /\ SentInOrder
    /\ Len(imp.sent) \in {imp.rownum, imp.rownum + 1}
    /\ imp.inserted <= Len(imp.sent)
    /\ imp.returned >= 0 =>
          /\ ~imp.active /\ pc # "import"
          /\ imp.returned = imp.inserted
    /\ imp.cause = "insert" =>
          /\ eng.caller = "import" /\ eng.result = "failed"
          /\ Len(imp.sent) = imp.rownum + 1
          /\ imp.returned = imp.rownum
    /\ imp.cause = "end" =>
          /\ imp.returned = imp.rownum + 1
          /\ Len(imp.sent) = imp.returned
          /\ (imp.rownum = -1 => imp.returned = 0)

C10_Witness ==
    /\ imp.cause = "insert"
    /\ imp.returned = 2
    /\ imp.sent = <<0, 1, 2>>

\* the type a column stores: the type under a reversed-type wrapper
StoredType(col) ==
    IF col.cqltype.subtypes # <<>> THEN col.cqltype.subtypes[1] ELSE col.cqltype

\* the last record of the import was handed to do_import_row
RowSent == job.dir = "import" /\ job.rowmap # <<>>

EmptyStringLiteral == <<"'", "", "'">>

\* C11: a field equal to the null token is sent as the literal null, except
\* for a clustering-key column whose stored type disallows the empty
\* encoding, where blobAs<Type>(0x) is sent; a field different from the null
\* token is sent quoted when the stored type is ascii, text, timestamp or
\* inet and as it is for every other type.
C11_ImportLiterals ==
    RowSent =>
        \A i \in 1..Len(job.layout) :
            LET col == job.layout[i]
                field == job.row[i]
                sent == job.rowmap[i].literal
            IN /\ job.rowmap[i].name = col.name
               /\ IF field = job.nullval
                  THEN IF col.clustering /\ ~StoredType(col).empty_binary_ok
                       THEN sent = <<"blobAs", Title(StoredType(col).cql), "(0x)">>
                       ELSE sent = <<"null">>
                  ELSE IF StoredType(col).cql \in {"ascii", "text", "timestamp", "inet"}
                       THEN sent = <<"'", field, "'">>
                       ELSE sent = <<field>>

C11_Witness ==
    /\ RowSent
    /\ job.layout[1].cqltype = ReversedType(int_type)
    /\ job.nullval = "N" /\ job.row = <<"N", "a">>
    /\ job.rowmap[1].literal = <<"blobAs", "Int", "(0x)">>
    /\ job.rowmap[2].literal = <<"'", "a", "'">>

\* C12 as stated: whatever the null token and the fields, no insert assigns
\* the literal empty string to a clustering-key column.
C12_Original ==
    RowSent =>
        \A i \in 1..Len(job.layout) :
            job.layout[i].clustering =>
                job.rowmap[i].literal # EmptyStringLiteral

\* C12 amended: no insert assigns the literal empty string to a
\* clustering-key column for a field equal to the null token, so with the
\* default null token (the empty string) none ever does; an empty field
\* that differs from the null token is sent as the literal empty string
\* exactly when the stored type is ascii, text, timestamp or inet.
C12_NoEmptyStringForNull ==
    RowSent =>
        \A i \in 1..Len(job.layout) :
            job.layout[i].clustering =>
                /\ job.row[i] = job.nullval =>
                      job.rowmap[i].literal # EmptyStringLiteral
                /\ job.nullval = "" => job.rowmap[i].literal # EmptyStringLiteral
                /\ job.rowmap[i].literal = EmptyStringLiteral <=>
                      /\ job.row[i] = "" /\ job.nullval # ""
                      /\ StoredType(job.layout[i]).cql \in
                            {"ascii", "text", "timestamp", "inet"}

C12_Witness ==
    /\ RowSent
    /\ job.layout[1] = Column("c", text_type, TRUE)
    /\ job.nullval = "" /\ job.row[1] = ""
    /\ job.rowmap[1].literal = <<"null">>

\* an import read back the file of an export of the same layout, with the
\* same options, and every insert succeeded
RoundTripDone ==
    /\ job.dir = "import" /\ job.from_export
    /\ job.exit = "end"

\* C13: the table filled by importing what an export wrote holds exactly
\* the rows of the exported table, rows with null values and rows whose
\* text is empty or equals the null token included.
C13_RoundTrip == RoundTripDone => job.target = job.source

\* a sink or source stream is closed by the job that opened it, on every
\* way out of the try statement, and never by a job that did not open it
StreamClosedByOpener ==
    /\ job.pc \in {"select", "fetch", "records"} => job.stream = "open"
    /\ job.pc = "done" /\ job.opened => job.stream = "closed"
    /\ ~job.opened => job.stream # "closed"
    /\ job.exit \in {"options", "open"} => job.stream = "none"

\* C14: an export closes its sink on every exit path (normal end, failure
\* of the select or of a write) when it opened the sink from a file name
\* and never closes standard output; an import closes its source only when
\* it opened it.
C14_CloseOwnStream ==
    /\ job.opened = job.do_close
    /\ StreamClosedByOpener
    /\ job.dir = "export" /\ job.exit \in {"select", "write", "end"} =>
          job.stream = IF job.opened THEN "closed" ELSE "open"
    /\ job.dir = "import" /\ job.stream = "closed" => job.opened

C14_Witness ==
    /\ job.dir = "export" /\ job.exit = "write"
    /\ job.opened /\ job.stream = "closed"
    /\ job.rows = 1

\* the records an export has to write for the rows it fetched and wrote
ExpectedRecords ==
    [i \in 1..job.rows |->
        [c \in 1..Len(job.layout) |->
            IF job.source[i][c] = None THEN job.nullval ELSE job.source[i][c].v]]

\* the export wrote the header row: it was asked for and the job got past it
HeaderWritten ==
    /\ job.header
    /\ \/ job.pc = "fetch"
       \/ job.exit = "end"
       \/ job.exit = "write" /\ job.source # <<>>

\* C15: an export issues exactly one select, writes the header row (when
\* asked for) before any data row, one record per result row in cursor
\* order, and returns the number of data rows written, header not counted.
C15_ExportRecords ==
    job.dir = "export" =>
        /\ job.selects = IF job.pc \in {"fetch", "done"}
                            /\ job.exit \notin {"options", "open"}
                         THEN 1 ELSE 0
        /\ job.csv = (IF HeaderWritten THEN <<header_row(job.layout)>> ELSE <<>>)
                        \o ExpectedRecords
        /\ job.header /\ job.rows > 0 => job.csv[1] = header_row(job.layout)
        /\ job.exit = "end" =>
              /\ job.rows = Len(job.source)
              /\ job.returned = job.rows
              /\ Len(job.csv) = job.rows + IF job.header THEN 1 ELSE 0

C15_Witness ==
    /\ job.dir = "export" /\ job.exit = "end"
    /\ job.header /\ job.returned = 2
    /\ Len(job.csv) = 3 /\ job.csv[1] = <<"c", "v">>

IsPrefix(a, b) == Len(a) <= Len(b) /\ SubSeq(b, 1, Len(a)) = a

\* the statements handed to handle_statement are, in order, the first
\* statements of the buffer, and the loop of onecmd holds the others
HandledInOrder ==
    /\ IsPrefix(disp.handled, queued.statements)
    /\ pc = "dispatch" =>
          Len(disp.handled) + Len(pending) = Len(queued.statements)
    /\ pc \in {"execute", "import"} =>
          /\ disp.handled # <<>>
          /\ Len(disp.handled) + Len(pending) = Len(queued.statements) + 1
          /\ cql_extract_orig(Head(pending), statement) = Last(disp.handled)
    /\ (pc \in {"read", "stopped"} /\ queued.kind = "dispatch"
          /\ ~queued.interrupted) =>
          disp.handled = queued.statements

\* a statement is handed to handle_statement only between two statements:
\* no execute attempt, retry, trace rendering or import loop is under way
OneInFlight ==
    (disp'.handled # disp.handled /\ disp'.handled # <<>>) =>
        /\ pc = "dispatch"
        /\ Len(disp'.handled) = Len(disp.handled) + 1
        /\ Front(disp'.handled) = disp.handled

\* C17: the statements dispatched from a buffer are the statements of the
\* buffer in the order of entry, none left out unless an interrupt emptied
\* the buffer, and a statement is dispatched only when the handling of the
\* one before it has ended, retries and trace rendering included.
C17_SubmissionOrder == [] HandledInOrder /\ [][OneInFlight]_vars

C17_Witness ==
    /\ pc = "read"
    /\ ~queued.interrupted
    /\ Len(disp.handled) = 2
    /\ disp.handled = queued.statements
    /\ disp.handled[1] # disp.handled[2]
    /\ eng.trynum > 1

\* a step in which the except clause for KeyboardInterrupt of cmdloop runs
\* (an interrupt that follows another with no line read in between changes
\* nothing)
InterruptStep == ~queued.interrupted /\ queued'.interrupted

\* what the except clause does to the buffer and what it leaves alone
InterruptEffect ==
    /\ statement' = <<>>
    /\ empty_lines' = 0
    /\ prompt' = MainPrompt(current_keyspace)
    /\ pending' = <<>>
    /\ UNCHANGED <<current_keyspace, consistency_level, tracing_enabled,
                   expand_enabled, query_out, shunted_query_out, stop,
                   statement_error, shells, options>>

\* C18 as stated: after every interrupt the loop reads the next line.
C18_Original == [][InterruptStep => (InterruptEffect /\ pc' = "read")]_vars

\* C18: a KeyboardInterrupt empties the buffer, sets the empty-line counter
\* to 0 and the prompt to the main prompt, and leaves the keyspace, the
\* consistency level, the tracing and expand flags, the output destination,
\* the shells that wait in do_source and the stop flag as they were; the
\* loop then reads the next line, unless the stop flag was already set, in
\* which case the loop ends.
C18_InterruptFrame ==
    [][InterruptStep =>
          (InterruptEffect /\ pc' = IF stop THEN "stopped" ELSE "read")]_vars

C18_Witness ==
    /\ queued.interrupted /\ queued.kind = "continue"
    /\ NumLines(queued.seen) = 2
    /\ statement = <<>> /\ prompt = MainPrompt("k") /\ pc = "read"
    /\ current_keyspace = "k" /\ tracing_enabled /\ expand_enabled
    /\ consistency_level = "QUORUM" /\ query_out = "'g'"
    /\ shells = <<>>

\* do_source starts the nested shell: a new Shell object with an empty
\* buffer and the session attributes of a new shell, while the parent is
\* kept as it is
SourceStarts ==
    Len(shells') > Len(shells) =>
        /\ Builtin("source")
        /\ Front(shells') = shells
        /\ SessionOf(Last(shells')) = SessionOf(ThisShell)
        /\ Last(shells').statement = statement
        /\ Last(shells').pending = pending
        /\ statement' = <<>> /\ pending' = <<>>
        /\ current_keyspace' = "" /\ ~tracing_enabled' /\ ~expand_enabled'
        /\ consistency_level' = "ONE" /\ query_out' = "stdout"

\* while the nested shell runs, the parent is where it was: it hands no
\* statement to handle_statement
ParentWaits ==
    (shells # <<>> /\ Len(shells') = Len(shells)) => shells' = shells

\* do_source goes on only when the loop of the nested shell has ended, and
\* the parent is then what it was when do_source started the nested shell
SourceReturns ==
    Len(shells') < Len(shells) =>
        /\ pc = "stopped" /\ stop
        /\ shells' = Front(shells)
        /\ statement' = Last(shells).statement
        /\ pending' = Last(shells).pending
        /\ disp' = Last(shells).disp
        /\ current_keyspace' = Last(shells).current_keyspace
        /\ tracing_enabled' = Last(shells).tracing_enabled
        /\ expand_enabled' = Last(shells).expand_enabled
        /\ consistency_level' = Last(shells).consistency_level
        /\ query_out' = Last(shells).query_out
        /\ shunted_query_out' = Last(shells).shunted_query_out

ErrorReported == statement_error \/ proc.sub_error

\* C20: in batch mode (--file or --execute) an error reported for one
\* statement does not keep the statements after it from being dispatched,
\* and the process ends with status 2 exactly when some statement of the
\* run, the statements of sourced scripts included, reported an error.
C20_BatchExitStatus ==
    /\ (batch_mode /\ statement_error /\ queued.kind = "dispatch"
           /\ ~queued.interrupted /\ pc \in {"read", "stopped", "exited"}) =>
           disp.handled = queued.statements
    /\ (batch_mode /\ pc = "exited") =>
           (proc.exit_status = 2 <=> ErrorReported)

\* the exit status follows the errors of the shell main started
C20_TopLevelOnly ==
    pc = "exited" =>
        (proc.exit_status = 2 <=> (batch_mode /\ statement_error))

\* the reports of failed attempts that met a retryable conflict
ConflictReports ==
    {i \in 1..Len(ev) : ev[i].e = "report" /\ ev[i].k = "integrity"}

\* C29: after the report of a failed retryable attempt n that is not the
\* last permitted one the engine sleeps n time units before attempt n + 1,
\* it sleeps nowhere else, and it does not sleep after attempt num_retries.
C29_SleepUnits ==
    /\ \A i \in ConflictReports :
          IF ev[i].n < num_retries
          THEN i < Len(ev) /\ ev[i + 1] = Event("sleep", ev[i].n, "")
          ELSE NothingAfterReport(i)
    /\ \A i \in 1..Len(ev) :
          ev[i].e = "sleep" => (i - 1) \in ConflictReports

\* the sleep after the report of attempt n lasts n + 1 time units
C29_SleepAsCoded ==
    /\ \A i \in ConflictReports :
          IF ev[i].n < num_retries
          THEN i < Len(ev) /\ ev[i + 1] = Event("sleep", ev[i].n + 1, "")
          ELSE NothingAfterReport(i)
    /\ \A i \in 1..Len(ev) :
          ev[i].e = "sleep" => (i - 1) \in ConflictReports

\* the engine has returned success after k submissions
SucceededAt(k) ==
    /\ eng.result = "ok"
    /\ Cardinality(Submissions) = k
    /\ \E i \in Submissions : ev[i] = Event("execute", k, "ok")

\* C30: when the first k - 1 submissions of a statement meet retryable
\* conflicts and the k-th succeeds (k from 1 to 4), the statement is
\* submitted exactly k times, attempts 1 to k - 1 are each reported and
\* nothing else is, the result is success and the result is rendered by the
\* one rendering step that follows the loop; a failure of another class at
\* attempt j is the last submission, so the statement is submitted j times.
C30_RetryThenSuccess ==
    /\ eng.result = "ok" =>
          \E k \in 1..num_retries :
              /\ SucceededAt(k)
              /\ eng.trynum = k
              /\ \A n \in 1..(k - 1) : \E i \in 1..(Len(ev) - 1) :
                    /\ ev[i] = Event("execute", n, "integrity")
                    /\ ev[i + 1] = Event("report", n, "integrity")
              /\ CountEv(ev, "report") = k - 1
              /\ eng.rendered = rendering(eng.statement, eng.cursor)
    /\ eng.result # "ok" => eng.rendered = "none"
    /\ \A i \in Submissions :
          ev[i].k \notin {"ok", "integrity"} =>
              /\ eng.result = "failed"
              /\ Cardinality(Submissions) = ev[i].n
              /\ \A j \in Submissions : j <= i

C30_Witness ==
    /\ SucceededAt(4)
    /\ CountEv(ev, "report") = 3
    /\ eng.rendered = "result"
    /\ pc = "read"

TraceEvents == {"trace_next_query", "settle", "print_trace_session"}

\* perform_statement has returned for the statement last dispatched
PerformReturned == eng.caller = "statement" /\ eng.result \in {"ok", "failed"}

\* C26: a statement run through perform_statement with tracing enabled
\* first requests a trace identifier, then is submitted (with its retries),
\* then the settle interval is waited and then the trace session is
\* rendered, each once; with tracing disabled no trace identifier is
\* requested, nothing is waited for and no trace is rendered.
C26_TraceOrder ==
    /\ eng.caller = "statement" => eng.traced = tracing_enabled
    /\ (eng.caller = "statement" /\ eng.traced) =>
          /\ ev # <<>> /\ ev[1].e = "trace_next_query"
          /\ CountEv(ev, "trace_next_query") = 1
    /\ (PerformReturned /\ eng.traced) =>
          /\ Len(ev) >= 4
          /\ ev[Len(ev) - 1].e = "settle"
          /\ ev[Len(ev)].e = "print_trace_session"
          /\ \A i \in 2..(Len(ev) - 2) : ev[i].e \in {"execute", "report", "sleep"}
          /\ Submissions # {}
    /\ (~PerformReturned /\ eng.traced) =>
          \A i \in 1..Len(ev) : ev[i].e \notin {"settle", "print_trace_session"}
    /\ ~eng.traced => \A i \in 1..Len(ev) : ev[i].e \notin TraceEvents

C26_Witness ==
    /\ PerformReturned /\ eng.traced /\ pc = "read"
    /\ Len(ev) = 7
    /\ ev[2] = Event("execute", 1, "integrity")
    /\ ev[5] = Event("execute", 2, "ok")
    /\ ev[7].e = "print_trace_session"

\* the 1-based position, among the data records, of the record the import
\* aborted on: the records before it were all sent, and it was sent itself
\* unless its field count was wrong
AbortedRecordPosition ==
    IF imp.cause = "fields" THEN Len(imp.sent) + 1 ELSE Len(imp.sent)

\* C28: when an import aborts on a record, for a wrong field count or a
\* failed insert, the record number of the report is the 1-based position
\* of that record among the data records (5 for the 5th record).
C28_RecordNumber ==
    imp.cause \in {"fields", "insert"} => imp.bad = AbortedRecordPosition

\* the report gives the position counted from 0
C28_RecordNumberAsCoded ==
    imp.cause \in {"fields", "insert"} => imp.bad = AbortedRecordPosition - 1

\* handle_eof has run: the input of the running shell is at its end
AtEOF == ev # <<>> /\ ev[1].e = "eof"

\* C23: at end of input with a non-empty buffer (which is then incomplete)
\* the shell reports the incomplete statement, dispatches nothing from the
\* buffer and stops; with an empty buffer it stops without the report.
C23_EndOfInput ==
    AtEOF =>
        /\ stop /\ pc \in {"stopped", "exited"}
        /\ disp = NoDisp /\ eng = NoEng /\ pending = <<>>
        /\ queued.statements = <<>>
        /\ IF HasText(queued.seen)
           THEN /\ queued.kind = "continue"
                /\ ev = <<Event("eof", 0, ""), Event("report", 0, "incomplete")>>
                /\ statement_error
           ELSE ev = <<Event("eof", 0, "")>>

C23_Witness ==
    /\ AtEOF /\ Len(ev) = 2
    /\ NumLines(queued.seen) = 2
    /\ Words(queued.seen) = <<"select", "t", "select", "t">>

\* a line was read into a buffer that holds terminators and line breaks only
OnlyTerminators ==
    /\ queued.kind \in {"empty", "continue", "dispatch", "lexerror"}
    /\ \A i \in 1..Len(queued.seen) : queued.seen[i] \in {";", "\n"}

\* onecmd returned true without a call of handle_statement, and cmdloop
\* reset the buffer
HandledAsNothing ==
    /\ queued.kind = "empty"
    /\ statement = <<>> /\ pending = <<>>
    /\ disp = NoDisp /\ eng = NoEng /\ ev = <<>>
    /\ pc = "read"

\* C24: a buffer that holds only a lone terminator, or only empty
\* statements, is treated as handled: onecmd returns true, the buffer is
\* reset, and nothing is handed to a builtin handler or to the server.
C24_EmptyBufferHandled == OnlyTerminators => HandledAsNothing

\* the same for a buffer without any token
C24_NoTokenHandled ==
    (OnlyTerminators /\ \A i \in 1..Len(queued.seen) : queued.seen[i] = "\n")
        => HandledAsNothing

\* the lexemes of the buffer before the first one that cannot be tokenized
BeforeBadLexeme ==
    {i \in 1..Len(queued.seen) : \A j \in 1..i : queued.seen[j] # BadLexeme}

C22_ConnectionFailures ==
    /\ proc.connect # "none" =>
          /\ pc = "exited"
          /\ proc.exit_status \notin {0, 2}
          /\ queued.kind = "none" /\ disp = NoDisp /\ eng = NoEng /\ ev = <<>>
          /\ ~statement_error
    /\ \A i \in Submissions :
          ev[i].k = "error" =>
              /\ i < Len(ev) /\ ev[i + 1] = Event("report", ev[i].n, "error")
              /\ statement_error
              /\ eng.result = "failed"
              /\ proc.connect = "none"
              /\ IF options.execute /\ shells = <<>>
                 THEN stop
                 ELSE ~stop /\ pc \in {"read", "dispatch"}

C22_Witness ==
    /\ proc.connect = "CQL_ERRORS"
    /\ proc.exit_status = 1
    /\ options.file
    /\ pc = "exited"

\* <consistencyLevel> of the grammar of the shell
ConsistencyLevels ==
    {"ANY", "ONE", "TWO", "THREE", "QUORUM", "ALL", "LOCAL_ONE", "LOCAL_QUORUM",
     "EACH_QUORUM"}

\* the session state of the running shell
Session ==
    <<current_keyspace, consistency_level, tracing_enabled, expand_enabled,
      query_out>>

\* the handlers that assign session state
SessionVerbs == {"use", "tracing", "expand", "consistency", "capture"}

\* a step of the running shell (not the start or the end of a nested one)
\* changes its session state only inside the handler of a builtin verb
ChangedByBuiltin ==
    (Session' # Session /\ shells' = shells) =>
        /\ disp'.route = "builtin"
        /\ disp'.handler \in SessionVerbs
        /\ \/ pc = "dispatch" /\ Builtin(disp'.handler)
           \/ pc = "execute" /\ eng.caller = "use" /\ disp' = disp

\* every step of the handling of a statement that has no builtin handler,
\* or that handle_parse_error forwards, leaves the session state alone
PassThroughFrame ==
    (\/ Dispatching /\ route_of(Head(pending)) \in {"passthrough", "forward"}
     \/ pc = "execute" /\ eng.caller = "statement") =>
        Session' = Session

\* C21: session state (current keyspace, consistency level, tracing flag,
\* expand flag, output destination) changes only while the handler of a
\* builtin verb runs; the dispatch of a pass-through statement leaves all
\* five unchanged whatever its outcome; the consistency level is always
\* one of the nine levels of the grammar.
C21_SessionFrame ==
    /\ [](consistency_level \in ConsistencyLevels)
    /\ [][ChangedByBuiltin /\ PassThroughFrame]_vars

C21_Witness ==
    /\ pc = "read"
    /\ disp.route = "passthrough"
    /\ eng.caller = "statement" /\ eng.result = "failed"
    /\ current_keyspace = "k" /\ tracing_enabled /\ expand_enabled
    /\ consistency_level = "QUORUM" /\ query_out = "'g'"

-----------------------------------------------------------------------------
(* C27 *)

\* the text a DESCRIBE of the table writes from the rows the catalog holds now
DescribedNow ==
    recreate_columnfamily(get_columnfamily_layout(regen.catalog[1]),
                          new_cf_opts(<<>>)).out

\* C27: no catalog definition survives from one operation to the next: every
\* DESCRIBE and every COPY made since the catalog rows last changed has read
\* the rows the catalog holds now, whatever an earlier operation had read;
\* the text of the DESCRIBE and the column list and layout of the COPY are
\* those of the changed catalog
C27_CatalogReadAnew ==
    /\ \A i \in 1..Len(regen.runs) :
          /\ regen.runs[i].rows = regen.catalog[1]
          /\ regen.runs[i].out = DescribedNow
    /\ \A i \in 1..Len(regen.copy) :
          /\ regen.copy[i].rows = regen.catalog[1]
          /\ regen.copy[i].columns = get_column_names(regen.catalog[1])
          /\ regen.copy[i].layout = get_columnfamily_layout(regen.catalog[1])

\* a DESCRIBE, a change of the catalog rows, then a DESCRIBE whose text
\* differs from the first one's and a COPY whose layout is the changed one
C27_Witness ==
    /\ regen.past # <<>>
    /\ regen.runs # <<>>
    /\ regen.copy # <<>>
    /\ regen.past[1].rows # regen.catalog[1]
    /\ regen.runs[1].out # regen.past[1].out
    /\ regen.copy[1].layout # get_columnfamily_layout(regen.past[1].rows)

-----------------------------------------------------------------------------
(* C31 *)

\* the pieces of text that hold the keyword WITH, and those that hold AND
WithPieces == {" WITH COMPACT STORAGE", " WITH", "WITH"}
AndPieces == {" AND\n ", "AND"}

\* the places of `out` that hold one of `pieces`
Places(out, pieces) == {i \in 1..Len(out) : out[i] \in pieces}

\* the clauses that follow the column list of a table made from `rows`
ClausesOf(rows, out) ==
    (IF rows.compact THEN 1 ELSE 0)
    + Cardinality(Places(out, {" CLUSTERING ORDER BY ("}))
    + Cardinality({i \in 1..Len(out) : out[i] = "="})

\* C31: in the text of every run WITH stands exactly once, after the column
\* list and before every AND; the clauses after the first are joined with
\* AND, one AND each; the clustering order clause is there exactly when the
\* clustering column sorts descending; whether or not the table has compact
\* storage
C31_OneWith ==
    \A r \in 1..Len(regen.runs) :
        LET out == regen.runs[r].out
            rows == regen.runs[r].rows
            with == Places(out, WithPieces)
            ands == Places(out, AndPieces)
        IN /\ Cardinality(with) = 1
           /\ \A w \in with :
                 /\ \E p \in 1..(w - 1) : out[p] = "\n)"
                 /\ \A a \in ands : w < a
           /\ Cardinality(ands) = ClausesOf(rows, out) - 1
           /\ \A a \in ands : a < Len(out) /\ out[a + 1] \in
                                    {" CLUSTERING ORDER BY (", "\n  "}
           /\ (Places(out, {" CLUSTERING ORDER BY ("}) # {}) <=> rows.c_reversed
           /\ (Places(out, {" WITH COMPACT STORAGE"}) # {}) <=> rows.compact

\* a table with compact storage and a descending clustering column has been
\* regenerated
C31_Witness ==
    /\ regen.runs # <<>>
    /\ regen.runs[1].rows.compact
    /\ regen.runs[1].rows.c_reversed
    /\ Cardinality(Places(regen.runs[1].out, AndPieces)) = 4

-----------------------------------------------------------------------------
(* C32 *)

\* the empty lines at the end of the buffer: the line ends that follow the
\* end of the last line with text
TrailingEmpty(text) ==
    IF ~HasText(text) THEN 0
    ELSE LET last == CHOOSE i \in 1..Len(text) :
                        /\ text[i] # "\n"
                        /\ \A j \in (i + 1)..Len(text) : text[j] = "\n"
         IN Len(text) - last - 1

\* the shell waits for a line with an incomplete statement in the buffer
Incomplete == pc = "read" /\ statement # <<>>

\* C32: while a statement is incomplete, the prompt shown after the third
\* consecutive empty line is the escalated one and the counter of empty lines
\* is then 0
C32_EscalatedAfterThree ==
    (Incomplete /\ TrailingEmpty(statement) = 3)
        => (prompt.kind = "escalated" /\ empty_lines = 0)

\* what the code does: the test empty_lines >= 3 comes before the count of
\* the line just read, so the third empty line leaves the continuation
\* prompt and a count of 3, and the line after it (the fourth when empty)
\* brings the escalated prompt and a count of 0; a line with text brings the
\* count back to 0
C32_EscalatedAfterFour ==
    Incomplete =>
        /\ TrailingEmpty(statement) = 0 => empty_lines = 0
        /\ TrailingEmpty(statement) \in 1..3 =>
              /\ prompt.kind = "continue"
              /\ empty_lines = TrailingEmpty(statement)
        /\ TrailingEmpty(statement) = 4 =>
              /\ prompt.kind = "escalated"
              /\ empty_lines = 0

-----------------------------------------------------------------------------
(* C33 *)

\* the job has called the server and the call failed
CallFailed == job.call.site # "none" /\ job.call.outcome # "ok"

-----------------------------------------------------------------------------
(* C34 *)

\* C34: the nested shell that SOURCE creates starts with the current
\* keyspace, the tracing flag, the expand flag and the consistency level the
\* parent has at that moment
C34_StartsWithCopy ==
    [][Len(shells') > Len(shells) =>
          /\ current_keyspace' = current_keyspace
          /\ tracing_enabled' = tracing_enabled
          /\ expand_enabled' = expand_enabled
          /\ consistency_level' = consistency_level]_vars

\* what the code does: the nested shell starts with no keyspace, both flags
\* off, the default consistency level and the standard output, whatever the
\* parent has; its buffer is empty and the parent keeps its own
C34_StartsWithDefaults ==
    [][Len(shells') > Len(shells) =>
          /\ current_keyspace' = "" /\ ~tracing_enabled' /\ ~expand_enabled'
          /\ consistency_level' = "ONE"
          /\ query_out' = "stdout" /\ shunted_query_out' = ""
          /\ statement' = <<>> /\ ~stop' /\ ~statement_error'
          /\ SessionOf(Last(shells')) = SessionOf(ThisShell)]_vars

-----------------------------------------------------------------------------
(* C36 *)

\* the keyspace a USE of `ksname` selects: the name without its quotes and in
\* its own case when it is in double quotes, the name in lower case otherwise
SelectedKeyspace(ksname) ==
    CASE ksname = "k" -> "k"
      [] ksname = "K" -> "k"
      [] ksname = "\"K\"" -> "K"

\* the engine returns to do_use
UseReturns == pc = "execute" /\ eng.caller = "use" /\ pc' # "execute"

\* C36: the current keyspace changes only when the engine reports the
\* success of a USE statement, and a USE whose execution fails (whatever the
\* failure, retries exhausted included) leaves it as it was; after a success
\* it is the name without quotes in its own case for a name in double
\* quotes and the name in lower case otherwise; a USE is submitted without
\* tracing even when tracing is enabled
C36_UseSetsKeyspace ==
    /\ [][/\ current_keyspace' # current_keyspace =>
                (UseReturns /\ eng'.result = "ok")
          /\ UseReturns =>
                current_keyspace' =
                    IF eng'.result = "ok"
                    THEN SelectedKeyspace(get_binding(disp.tokens, "ksname"))
                    ELSE current_keyspace]_vars
    /\ []((pc = "execute" /\ eng.caller = "use") =>
              /\ ~eng.traced
              /\ \A i \in 1..Len(ev) :
                    ev[i].e \notin {"trace_next_query", "print_trace_session"})

\* with tracing on and the keyspace k current, USE "K" has succeeded after a
\* conflict and the current keyspace is K
C36_Witness ==
    /\ tracing_enabled
    /\ eng.caller = "use" /\ eng.result = "ok" /\ eng.trynum = 2
    /\ get_binding(disp.tokens, "ksname") = "\"K\""
    /\ current_keyspace = "K"
    /\ pc = "read"

-----------------------------------------------------------------------------
(* C35 *)

\* the buffer holds statements and the last of them is not complete
LastIncomplete == queued.kind = "continue"

\* every statement of the buffer has been handed to handle_statement once,
\* in the order of the text
AllDispatchedOnce ==
    /\ disp.handled = queued.statements
    /\ Flatten([i \in 1..Len(disp.handled) |-> Words(disp.handled[i])])
          = Words(queued.seen)

\* C35: while the last statement of the buffer is incomplete no statement of
\* the buffer is dispatched; when the buffer has been handled, each of its
\* statements has been dispatched once, in textual order, and the buffer is
\* empty; what the buffer holds between two lines has not been dispatched
\* (it is incomplete), and the end of input dispatches nothing
C35_DispatchedOnce ==
    /\ [](LastIncomplete => (disp.handled = <<>> /\ pending = <<>>))
    /\ []((pc \in {"read", "stopped"} /\ queued.kind = "dispatch"
              /\ ~queued.interrupted) =>
             (AllDispatchedOnce /\ statement = <<>>))
    /\ []((pc = "read" /\ statement # <<>>) =>
             (onecmd(statement).kind = "continue" /\ disp.handled = <<>>))
    /\ [][(pc = "read" /\ pc' = "stopped" /\ ~single_statement) =>
             (disp'.handled = <<>> /\ pending' = <<>>)]_vars

\* a buffer of two statements, completed by its second line, has been
\* handled and is empty
C35_Witness ==
    /\ pc = "read" /\ statement = <<>>
    /\ queued.kind = "dispatch" /\ ~queued.interrupted
    /\ NumLines(queued.seen) = 2
    /\ Len(queued.statements) = 2
    /\ disp.handled = queued.statements

-----------------------------------------------------------------------------
(* C37 *)

\* the handler of `verb` runs in this step, on the argument `switch`
Switched(verb, switch) ==
    /\ pc = "dispatch"
    /\ disp'.handler = verb /\ disp' # disp
    /\ Upper(get_binding(Head(pending), "switch")) = switch

\* the effect of the command `verb` on its flag: ON when on and OFF when off
\* report an error and leave the flag; no argument leaves the flag and
\* reports nothing; ON when off and OFF when on set the flag and report
\* nothing
FlagEffect(verb, flag, flagAfter) ==
    /\ (Switched(verb, "ON") /\ flag) =>
          (flagAfter /\ statement_error' /\ ev' # <<>>)
    /\ (Switched(verb, "OFF") /\ ~flag) =>
          (~flagAfter /\ statement_error' /\ ev' # <<>>)
    /\ Switched(verb, "") =>
          (flagAfter = flag /\ statement_error' = statement_error /\ ev' = <<>>)
    /\ (Switched(verb, "ON") /\ ~flag) =>
          (flagAfter /\ statement_error' = statement_error /\ ev' = <<>>)
    /\ (Switched(verb, "OFF") /\ flag) =>
          (~flagAfter /\ statement_error' = statement_error /\ ev' = <<>>)

\* C37: for TRACING and EXPAND alike, ON when the flag is on and OFF when it
\* is off report an error and leave the flag; the command without argument
\* never changes the flag; otherwise the flag is true after ON and false
\* after OFF; neither command changes the other flag, and nothing else
\* changes either flag
C37_FlagSwitches ==
    [][/\ FlagEffect("tracing", tracing_enabled, tracing_enabled')
       /\ FlagEffect("expand", expand_enabled, expand_enabled')
       /\ tracing_enabled' # tracing_enabled =>
             \E sw \in {"ON", "OFF"} : Switched("tracing", sw)
       /\ expand_enabled' # expand_enabled =>
             \E sw \in {"ON", "OFF"} : Switched("expand", sw)]_vars

\* EXPAND ON has been refused with expanded output already on, tracing off
C37_Witness ==
    /\ disp.handler = "expand"
    /\ ev = <<Event("printerr", 0, "expand")>>
    /\ expand_enabled /\ ~tracing_enabled
    /\ statement_error

-----------------------------------------------------------------------------
(* C38 *)

\* output is being captured: it goes to a file
Capturing == query_out # "stdout"

\* the handler of CAPTURE runs in this step
CaptureStep == pc = "dispatch" /\ disp'.handler = "capture" /\ disp' # disp

\* the argument of the CAPTURE command at the head of the loop
CaptureArg == Upper(get_binding(Head(pending), "fname"))

\* the four attributes of output capture are left as they are
CaptureUnchanged == UNCHANGED <<query_out, shunted_query_out, color, shunted_color>>

\* C38: output capture has two states: a saved destination exists exactly
\* while output is captured, and color is off while it is; CAPTURE with a
\* file while capturing and CAPTURE OFF while not capturing report an error
\* and change nothing; CAPTURE with a file saves the destination and the
\* color flag, which stay saved until CAPTURE OFF puts both back
C38_CaptureMachine ==
    /\ []((shunted_query_out # "") <=> Capturing)
    /\ []((shunted_color # <<>>) <=> Capturing)
    /\ [](Capturing => ~color)
    /\ [][/\ (CaptureStep /\ Capturing /\ CaptureArg \notin {"", "OFF"}) =>
               (CaptureUnchanged /\ statement_error')
          /\ (CaptureStep /\ ~Capturing /\ CaptureArg = "OFF") =>
               (CaptureUnchanged /\ statement_error')
          /\ (~Capturing /\ Capturing') =>
               /\ CaptureStep /\ CaptureArg \notin {"", "OFF"}
               /\ shunted_query_out' = query_out
               /\ shunted_color' = <<color>>
          /\ (Capturing /\ Capturing') => CaptureUnchanged
          /\ (Capturing /\ ~Capturing') =>
               /\ CaptureStep /\ CaptureArg = "OFF"
               /\ query_out' = shunted_query_out
               /\ color' = shunted_color[1]
          /\ (~Capturing /\ ~Capturing') => CaptureUnchanged]_vars

\* a shell that colours its output has captured to a file and stopped
\* capturing: output goes where it went and color is on again
C38_Witness ==
    /\ disp.handler = "capture"
    /\ Upper(get_binding(disp.tokens, "fname")) = "OFF"
    /\ ~statement_error
    /\ query_out = "stdout" /\ color
    /\ shunted_query_out = "" /\ shunted_color = <<>>

-----------------------------------------------------------------------------
(* C39 *)

\* the shell that runs is a nested one whose stop flag is set
NestedStopped == shells # <<>> /\ stop

\* C39: an EXIT or QUIT in a sourced script stops the nested shell only: once
\* its stop flag is set the nested shell reads no line and takes no new
\* buffer; the stop flag of a suspended shell is the one it had at SOURCE
\* (false, unless the shell runs the single statement of the command line),
\* the parent comes back from SOURCE with that flag and its own buffer, and
\* goes on with its own loop
C39_ExitInScript ==
    /\ [](NestedStopped => pc # "read")
    /\ [](\A i \in 1..Len(shells) :
             shells[i].stop => (options.execute /\ i = 1))
    /\ [][/\ (NestedStopped /\ Len(shells') = Len(shells)) =>
               (queued'.seen = queued.seen /\ stop')
          /\ (Len(shells') < Len(shells) /\ disp.handler = "exit") =>
               /\ pc = "stopped" /\ pending = <<>>
               /\ stop' = Last(shells).stop /\ pc' = "sourced"
               /\ statement' = Last(shells).statement
               /\ shells' = Front(shells)
          /\ (pc = "sourced" /\ pc' # "sourced" /\ ~stop) =>
               (~stop' /\ pc' \in {"read", "dispatch"})]_vars

\* the script has ended by EXIT and the parent waits for its next line
C39_Witness ==
    /\ shells = <<>>
    /\ ev = <<Event("subshell", 0, "exit")>>
    /\ disp.handler = "source"
    /\ pc = "read" /\ ~stop
    /\ statement = <<>>

-----------------------------------------------------------------------------
(* The read loop on an input given in full *)

\* the longest input followed
MaxInput == 3

\* the lines of a file, or of a terminal session that ends
StdinLines ==
    { <<>>, <<"use", "k">>, <<";">>, <<"exit">>,
      <<"exit", ";", "use", "k", ";">> }

\* the statements --execute can give
ExecuteTexts == { <<"use", "k">>, <<"exit">>, <<"use", "k", ";", "exit">> }

Inputs ==
    UNION { [1..n -> StdinLines] : n \in 0..MaxInput }

\* mutant: a reader that hands out the line it handed out before
ReadStdin_rereads ==
    /\ single_statement \/ stdin.pos < Len(stdin.lines)
    /\ cmdloop_turn(IF single_statement THEN ExecuteTexts
                    ELSE {stdin.lines[stdin.pos + 1]}, MaxInput + 1)
    /\ UNCHANGED stdin

\* Shell.cmdloop, one turn: the single statement, or the next line of
\* get_input_line (readline on self.stdin for a file, raw_input for a
\* terminal; either raises EOFError where the input ends)
ReadStdin ==
    /\ single_statement \/ stdin.pos < Len(stdin.lines)
    /\ cmdloop_turn(IF single_statement THEN ExecuteTexts
                    ELSE {stdin.lines[stdin.pos + 1]}, MaxInput + 1)
    /\ stdin' = IF single_statement THEN stdin
                ELSE [stdin EXCEPT !.pos = @ + 1]

\* get_input_line raises EOFError once the lines are taken
ReadStdinEOF ==
    /\ stdin.pos = Len(stdin.lines)
    /\ ReadEOF

\* a shell reading a finite input, or running a single statement
InitInput ==
    \E execute \in BOOLEAN, lines \in Inputs :
        InitReading([file |-> FALSE, execute |-> execute], "read", TRUE,
                    [lines |-> lines, pos |-> 0])

NextInput ==
    \/ ReadStdin
    \/ ReadStdinEOF
    \/ Interrupt
    \/ Forward
    \/ Improper
    \/ do_use
    \/ do_exit
    \/ ExecuteOk
    \/ ExecuteRetry
    \/ ExecuteAbort

\* handle_statement calls the handler of the statement
Handled == Forward \/ Improper \/ do_use \/ do_exit

\* the server answers every attempt of the engine, one way or the other
Answered == ExecuteOk \/ ExecuteRetry \/ ExecuteAbort

\* where the loop reads, a turn or the end of the input is possible, and
\* each changes the state
ReadEnabled == pc = "read"

TurnEnabled == ReadEnabled <=> ENABLED <<ReadStdin \/ ReadStdinEOF>>_vars

\* the call of get_input_line returns or raises: weak fairness of the turn,
\* WF_vars(ReadStdin \/ ReadStdinEOF), with ReadEnabled for its ENABLED
ReadFair ==
    <>[]ReadEnabled => []<><<ReadStdin \/ ReadStdinEOF>>_vars

\* every handler returns and the loop goes on to its next step
SpecInput ==
    /\ InitInput /\ [][NextInput]_vars
    /\ WF_vars(Handled) /\ WF_vars(Answered)
    /\ ReadFair

(* C40 *)

\* C40: on a finite input the loop ends with the stop flag set.  The lines
\* are taken in order, each once, one by every turn of a shell that is
\* reading and not stopped;
\* a reading shell leaves the loop where it reads only through handle_eof,
\* at the end of the input, with the stop flag set; EXIT sets the stop flag,
\* and once the flag is set it stays set and no line is taken; the shell of a
\* single statement takes no line of the input and sets the stop flag in the
\* turn that takes the statement, so there is no second turn
C40_LoopTerminates ==
    /\ <>[](pc = "stopped" /\ stop)
    /\ [](stdin.pos \in 0..Len(stdin.lines))
    /\ [](stop => pc # "read")
    /\ [](single_statement => stdin.pos = 0)
    /\ [][/\ stdin'.lines = stdin.lines
          /\ stdin'.pos \in {stdin.pos, stdin.pos + 1}
          /\ stdin'.pos = stdin.pos + 1 =>
               /\ pc = "read" /\ ~stop /\ ~single_statement
               /\ lastcmd' = stdin.lines[stdin'.pos]
               /\ queued'.seen = statement \o lastcmd' \o <<"\n">>
          /\ (/\ pc = "read" /\ ~single_statement
              /\ pc' # "stopped" /\ ~queued'.interrupted) =>
               stdin'.pos = stdin.pos + 1
          /\ (pc = "read" /\ pc' = "stopped" /\ ~single_statement) =>
               /\ stdin.pos = Len(stdin.lines) /\ stdin' = stdin
               /\ stop' /\ ev'[1] = Event("eof", 0, "")
          /\ (disp'.handler = "exit" /\ disp' # disp) => stop'
          /\ stop => (stop' /\ stdin' = stdin)
          /\ (single_statement /\ pc = "read" /\ queued'.seen # queued.seen) =>
               (stop' /\ queued.seen = <<>>)]_vars

\* the loop has taken every line of the longest input and ended at its end
C40_Witness ==
    /\ Len(stdin.lines) = MaxInput
    /\ stdin.pos = MaxInput
    /\ queued.kind = "eof"
    /\ pc = "stopped" /\ stop

====
